---- MODULE Spec2Model ----
(***************************************************************************)
(* Chat lifecycle of the comment bot: ChatManager (bot/managers/           *)
(* chatManager.js) on top of DatabaseManager (bot/managers/                *)
(* databaseManager.js) or of the in-memory userChats map that is flushed   *)
(* to user-chats.json, driven by TelegramBotHandler (bot/core/             *)
(* telegramBot.js), and the feedback store of LearningManager (bot/        *)
(* managers/learningManager.js).                                           *)
(*                                                                         *)
(* A state holds one ChatManager per element of DOMAIN useDatabase.  Every *)
(* public call is applied to every manager of the state, so that a state   *)
(* with a single manager is the running bot and a state with two managers  *)
(* (one per backend) is a lockstep comparison of the two backends.         *)
(*                                                                         *)
(* JavaScript runs each handler to its next await without interleaving.    *)
(* better-sqlite3 is synchronous, and the flat-file methods mutate the map *)
(* before their only await (saveData), so each ChatManager call changes    *)
(* the chat state in one atomic step.                                      *)
(***************************************************************************)
EXTENDS Integers, Sequences, FiniteSets, TLC

(* ------------------------------ bounds -------------------------------- *)
\* config.chat.maxChatsPerUser and config.chat.maxChatNameLength are read
\* from bot/utils/config.js; the model runs a small configuration.
MaxChatsPerUser == 3
MaxChatNameLength == 2
\* how many chat ids a manager may hand out
MaxCreates == 4
\* how many seconds the clock may run beyond the retention window
MaxSeconds == 0
\* how many generations of one user may be awaiting the API at once, and how
\* many generations are started in all
MaxInFlight == 2
MaxGenerations == 2
\* how many feedback records the learning manager may store in all
MaxFeedback == 3
\* how many messages updateChatStats may count in one chat
MaxMessages == 1
\* how many chats are created in the runs that follow the files
MaxSavedChats == 2
\* the largest maxRetries a call of generateComments is given
MaxAttempts == 2
\* how many bot processes the monitor may spawn in all
MaxChildren == 3

(* ------------------------- program constants -------------------------- *)
SecondsPerDay == 86400
RetentionDays == 30
\* JavaScript null in activeChatId; chat ids start at 1
NoChat == 0
\* CHECK (rating >= 1 AND rating <= 5) of table feedback
MinRating == 1
MaxRating == 5

\* config.learning.feedbackRetentionDays is read from bot/utils/config.js
FeedbackRetentionDays == 90
FeedbackRetention == FeedbackRetentionDays * SecondsPerDay
\* the clock of the feedback runs advances to the end of the feedback
\* retention window or by a second
FeedbackWaits == {1, FeedbackRetention}

\* the ratings a caller may pass: the ends of the valid range and the value
\* beyond either end
RatingInputs == {MinRating - 1, MinRating, MaxRating, MaxRating + 1}
CommentIds == {"comment_1"}

\* Telegram user ids (msg.from.id); distinct from the users table's row ids
Users == {101, 102}
\* the user of the runs that follow a single user
User == CHOOSE u \in Users : TRUE

Name(n) == [k \in 1..n |-> "x"]
\* a short name, one of exactly the maximal length, one a character longer
Names == {Name(1), Name(MaxChatNameLength), Name(MaxChatNameLength + 1)}

\* the clock counts seconds; it advances by a second or to just past the
\* retention window
Retention == RetentionDays * SecondsPerDay
Waits == {1, Retention + 1}

VARIABLES
  useDatabase,  \* [manager -> BOOLEAN]   ChatManager.useDatabase after init()
  userChats,    \* [manager -> Map]       ChatManager.userChats
  dbUsers,      \* [manager -> rows]      table users
  dbChats,      \* [manager -> rows]      table chats
  chatSeq,      \* [manager -> Nat]       chat ids handed out so far
  userSettings, \* [manager -> Map]       ChatManager.userSettings
  files,        \* [manager -> the contents of user_chats.json and user_settings.json]
  now,          \* the clock, in seconds
  call,         \* the name of the last public call
  result,       \* [manager -> whether it returned success]
  userStates,   \* TelegramBotHandler.userStates
  inFlight,     \* [user -> the message handlers suspended at an await]
  generations,  \* generations started so far
  monitor,      \* BotMonitor: its counters, timers and child processes
  gen,          \* the call of QwenApi.generateComments that is followed
  lmUseDatabase,  \* LearningManager.useDatabase after init()
  feedbackCache,  \* LearningManager.feedbackCache
  dbFeedback,     \* table feedback
  feedbackSeq     \* feedback ids handed out so far

\* the fields of the learning manager
learnVars == <<lmUseDatabase, feedbackCache, dbFeedback, feedbackSeq>>

vars == <<useDatabase, monitor, userChats, dbUsers, dbChats, chatSeq, userSettings, files, now, call, result,
          userStates, inFlight, generations, gen, learnVars>>

\* what the calls of ChatManager leave alone
botVars == <<userStates, inFlight, generations, gen>>

Managers == DOMAIN useDatabase

(* ------------------------------ helpers ------------------------------- *)
MaxOf(S) == CHOOSE x \in S : \A y \in S : y <= x

Ok(data) == [success |-> TRUE, data |-> data]
Err(kind, arg) == [success |-> FALSE, error |-> [kind |-> kind, arg |-> arg]]

\* Array.prototype.findIndex on chat ids, 1-based; 0 when absent
FindIndex(chats, chatId) ==
  IF \E k \in 1..Len(chats) : chats[k].id = chatId
  THEN CHOOSE k \in 1..Len(chats) :
         /\ chats[k].id = chatId
         /\ \A j \in 1..(k - 1) : chats[j].id # chatId
  ELSE 0

\* Array.prototype.splice(index, 1)
Splice(chats, k) == [j \in 1..(Len(chats) - 1) |-> IF j < k THEN chats[j] ELSE chats[j + 1]]

\* all the orders in which a set of rows can be returned
Perms(S) ==
  {s \in [1..Cardinality(S) -> S] : \A a \in S : \E k \in 1..Cardinality(S) : s[k] = a}

EmptyUserData == [chats |-> <<>>, activeChatId |-> NoChat]

\* ChatManager.getUserData: the map after the call (an absent user is added)
getUserData(map, userId) ==
  IF userId \in DOMAIN map THEN map ELSE map @@ (userId :> EmptyUserData)

(* --------------------------- DatabaseManager -------------------------- *)
\* JavaScript null in a column
Null == "null"

\* the userData argument when it is left out: {}.  Of the profile fields
\* username stands for first_name and last_name, which are treated alike.
NoUserData == [username |-> Null]
UserDatas == {NoUserData, [username |-> "alice"], [username |-> "bob"]}

\* getUserOrCreate overwriting the profile of a user it finds
getUserOrCreate_Upsert(users, telegramId, userData) ==
  LET found == {r \in users : r.telegram_id = telegramId}
      row == [id |-> IF found # {} THEN (CHOOSE r \in found : TRUE).id
                     ELSE MaxOf({r.id : r \in users} \cup {0}) + 1,
              telegram_id |-> telegramId, username |-> userData.username]
  IN [users |-> (users \ found) \cup {row}, user |-> row]

\* getUserOrCreate: the users table after the call, and the row returned
getUserOrCreate(users, telegramId, userData) ==
  LET found == {r \in users : r.telegram_id = telegramId}
  IN IF found # {}
     THEN [users |-> users, user |-> CHOOSE r \in found : TRUE]
     ELSE LET row == [id |-> MaxOf({r.id : r \in users} \cup {0}) + 1,
                      telegram_id |-> telegramId, username |-> userData.username]
          IN [users |-> users \cup {row}, user |-> row]

\* DeactivateAll with the UPDATE left out
DeactivateAll_Skipped(chats, userId) == chats

\* UPDATE chats SET is_active = 0 WHERE user_id = ?
DeactivateAll(chats, userId) ==
  {IF r.user_id = userId THEN [r EXCEPT !.is_active = 0] ELSE r : r \in chats}

\* DatabaseManager.createChat: deactivate the user's chats, insert an active one.
\* CURRENT_TIMESTAMP has a resolution of one second, the unit of the clock.
dbCreateChat(chats, seq, t, userId, name) ==
  LET row == [id |-> seq + 1, user_id |-> userId, name |-> name, is_active |-> 1,
              message_count |-> 0, created_at |-> t, updated_at |-> t]
  IN [chats |-> DeactivateAll(chats, userId) \cup {row}, seq |-> seq + 1, res |-> Ok(row)]

\* DatabaseManager.getActiveChat
dbGetActiveChat(chats, userId) ==
  LET active == {r \in chats : r.user_id = userId /\ r.is_active = 1}
  IN IF active = {}
     THEN Err("ActiveChatNotFound", 0)
     ELSE Ok(CHOOSE r \in active : \A q \in active : q.updated_at <= r.updated_at)

\* the rows SELECT * FROM chats WHERE user_id = ? ranges over
UserRows(chats, userId) == {r \in chats : r.user_id = userId}

\* DatabaseManager.getUserChats: ORDER BY updated_at DESC fixes the order of
\* the rows only up to equal timestamps, so the call has a set of outcomes
getUserChats(chats, userId) ==
  {s \in Perms(UserRows(chats, userId)) :
     \A k \in 1..(Len(s) - 1) : s[k].updated_at >= s[k + 1].updated_at}

(* ----------------------------- ChatManager ---------------------------- *)
\* A manager is the record of its fields:
\*   [useDatabase, userChats, dbUsers, dbChats, chatSeq]
\* and a call returns the manager after the call and the value returned.

\* LimitReached comparing with > in place of >=
LimitReached_OffByOne(count) == count > MaxChatsPerUser

\* userChats.length >= config.chat.maxChatsPerUser
LimitReached(count) == count >= MaxChatsPerUser

\* NameTooLong comparing with >= in place of >
NameTooLong_OffByOne(chatName) == Len(chatName) >= MaxChatNameLength

\* chatName.length > config.chat.maxChatNameLength
NameTooLong(chatName) == Len(chatName) > MaxChatNameLength

\* no statement of the database raises, no writeFile fails
NoFault == "none"

\* the writeFile of saveData that fails, if one does
WriteFaults == {"user_chats.json", "user_settings.json"}

\* saveData has logged nothing in this call
NoLog == "none"

\* saveData dropping the error of a failed writeFile without a log entry
saveData_Silent(m) ==
  IF m.writeFault = NoFault
  THEN [m EXCEPT !.files = [userChats |-> m.userChats, userSettings |-> m.userSettings],
                 !.log = "info"]
  ELSE m

\* saveData writes user_chats.json, then user_settings.json, then logs at
\* level info; an error of either writeFile is caught and logged at level
\* error, and saveData returns normally
saveData(m) ==
  IF m.writeFault = "user_chats.json" THEN [m EXCEPT !.log = "error"]
  ELSE IF m.writeFault = "user_settings.json"
  THEN [m EXCEPT !.files.userChats = m.userChats, !.log = "error"]
  ELSE [m EXCEPT !.files = [userChats |-> m.userChats, userSettings |-> m.userSettings],
                 !.log = "info"]

\* config.telegram.defaultModel and a model a user may choose instead
DefaultModel == <<"q">>

EmptySettings == [u \in {} |-> DefaultModel]

\* getUserSettings enters the default model for a user the map does not hold
getUserSettings(settings, userId) ==
  IF userId \in DOMAIN settings THEN settings
  ELSE [u \in DOMAIN settings \cup {userId} |->
          IF u = userId THEN DefaultModel ELSE settings[u]]

getUserModel(m, userId) == getUserSettings(m.userSettings, userId)[userId]

setUserModel(m, userId, model) ==
  [m |-> saveData([m EXCEPT !.userSettings =
                     [getUserSettings(m.userSettings, userId) EXCEPT ![userId] = model]]),
   res |-> Ok(model)]

\* the model passed to dbManager.createChat is read with getUserModel, which
\* enters the user's default settings
createChatDB(m, t, userId, chatName) ==
  LET g == getUserOrCreate(m.dbUsers, userId, NoUserData)
      m1 == [m EXCEPT !.dbUsers = g.users]
      c == dbCreateChat(m.dbChats, m.chatSeq, t, g.user.id, chatName)
  IN IF LimitReached(Cardinality(UserRows(m.dbChats, g.user.id)))
     THEN [m |-> m1, res |-> Err("LimitExceeded", MaxChatsPerUser)]
     ELSE IF NameTooLong(chatName)
     THEN [m |-> m1, res |-> Err("NameTooLong", MaxChatNameLength)]
     ELSE [m |-> [m1 EXCEPT !.dbChats = c.chats, !.chatSeq = c.seq,
                            !.userSettings = getUserSettings(@, userId)],
           res |-> c.res]

\* The new chat is pushed at the end of the array and becomes the active chat
\* only when it is the user's first chat.  The id is chat_<time>_<random>:
\* a fresh value, here the next number.
createChatJSON(m, t, userId, chatName) ==
  LET map == getUserData(m.userChats, userId)
      userData == map[userId]
      m1 == [m EXCEPT !.userChats = map]
      newChat == [id |-> m.chatSeq + 1, name |-> chatName, createdAt |-> t,
                  lastUsed |-> t, messageCount |-> 0]
      chats2 == Append(userData.chats, newChat)
      active2 == IF Len(chats2) = 1 THEN newChat.id ELSE userData.activeChatId
  IN IF LimitReached(Len(userData.chats))
     THEN [m |-> m1, res |-> Err("LimitExceeded", MaxChatsPerUser)]
     ELSE IF NameTooLong(chatName)
     THEN [m |-> m1, res |-> Err("NameTooLong", MaxChatNameLength)]
     ELSE [m |-> saveData([m1 EXCEPT !.userChats[userId] =
                                      [chats |-> chats2, activeChatId |-> active2],
                                    !.chatSeq = m.chatSeq + 1]),
           res |-> Ok(newChat)]

createChat(m, t, userId, chatName) ==
  IF m.useDatabase THEN createChatDB(m, t, userId, chatName)
  ELSE createChatJSON(m, t, userId, chatName)

\* UPDATE chats SET is_active = 1, updated_at = CURRENT_TIMESTAMP WHERE id = ? AND user_id = ?
Activate(chats, t, userId, chatId) ==
  {IF r.id = chatId /\ r.user_id = userId
   THEN [r EXCEPT !.is_active = 1, !.updated_at = t] ELSE r : r \in chats}

\* selectChatDB looking the chat up among the chats of all users
selectChatDB_AnyOwner(m, t, userId, chatId) ==
  LET g == getUserOrCreate(m.dbUsers, userId, NoUserData)
      m1 == [m EXCEPT !.dbUsers = g.users]
      found == {r \in m.dbChats : r.id = chatId}
  IN IF found = {}
     THEN [m |-> m1, res |-> Err("ChatNotFound", 0)]
     ELSE [m |-> [m1 EXCEPT !.dbChats =
                    Activate(DeactivateAll(m.dbChats, g.user.id), t, g.user.id, chatId)],
           res |-> Ok(CHOOSE r \in found : TRUE)]

selectChatDB(m, t, userId, chatId) ==
  LET g == getUserOrCreate(m.dbUsers, userId, NoUserData)
      m1 == [m EXCEPT !.dbUsers = g.users]
      found == {r \in UserRows(m.dbChats, g.user.id) : r.id = chatId}
  IN IF found = {}
     THEN [m |-> m1, res |-> Err("ChatNotFound", 0)]
     ELSE [m |-> [m1 EXCEPT !.dbChats =
                    Activate(DeactivateAll(m.dbChats, g.user.id), t, g.user.id, chatId)],
           res |-> Ok(CHOOSE r \in found : TRUE)]

selectChatJSON(m, t, userId, chatId) ==
  LET map == getUserData(m.userChats, userId)
      userData == map[userId]
      m1 == [m EXCEPT !.userChats = map]
      k == FindIndex(userData.chats, chatId)
      chat == [userData.chats[k] EXCEPT !.lastUsed = t]
  IN IF k = 0
     THEN [m |-> m1, res |-> Err("ChatNotFound", 0)]
     ELSE [m |-> saveData([m1 EXCEPT !.userChats[userId] =
                    [chats |-> [userData.chats EXCEPT ![k] = chat], activeChatId |-> chatId]]),
           res |-> Ok(chat)]

selectChat(m, t, userId, chatId) ==
  IF m.useDatabase THEN selectChatDB(m, t, userId, chatId)
  ELSE selectChatJSON(m, t, userId, chatId)

\* renameChat reads and writes the userChats map under either backend
\* renameChat making the renamed chat the active one
renameChat_Activating(m, userId, chatId, newName) ==
  LET map == getUserData(m.userChats, userId)
      userData == map[userId]
      m1 == [m EXCEPT !.userChats = map]
      k == FindIndex(userData.chats, chatId)
      chat == [userData.chats[k] EXCEPT !.name = newName]
  IN IF k = 0
     THEN [m |-> m1, res |-> Err("ChatNotFound", 0)]
     ELSE IF NameTooLong(newName)
     THEN [m |-> m1, res |-> Err("NameTooLong", MaxChatNameLength)]
     ELSE [m |-> saveData([m1 EXCEPT !.userChats[userId].chats[k] = chat,
                                      !.userChats[userId].activeChatId = chatId]),
           res |-> Ok(chat)]

renameChat(m, userId, chatId, newName) ==
  LET map == getUserData(m.userChats, userId)
      userData == map[userId]
      m1 == [m EXCEPT !.userChats = map]
      k == FindIndex(userData.chats, chatId)
      chat == [userData.chats[k] EXCEPT !.name = newName]
  IN IF k = 0
     THEN [m |-> m1, res |-> Err("ChatNotFound", 0)]
     ELSE IF NameTooLong(newName)
     THEN [m |-> m1, res |-> Err("NameTooLong", MaxChatNameLength)]
     ELSE [m |-> saveData([m1 EXCEPT !.userChats[userId].chats[k] = chat]), res |-> Ok(chat)]

\* no chat taking the place of the active chat that is removed
Replacement_Null(chats) == NoChat

\* userData.chats.length > 0 ? userData.chats[0].id : null
Replacement(chats) == IF Len(chats) > 0 THEN chats[1].id ELSE NoChat

\* deleteChat reads and writes the userChats map under either backend
deleteChat(m, userId, chatId) ==
  LET map == getUserData(m.userChats, userId)
      userData == map[userId]
      m1 == [m EXCEPT !.userChats = map]
      k == FindIndex(userData.chats, chatId)
      rest == Splice(userData.chats, k)
      active2 == IF userData.activeChatId = chatId THEN Replacement(rest)
                 ELSE userData.activeChatId
  IN IF k = 0
     THEN [m |-> m1, res |-> Err("ChatNotFound", 0)]
     ELSE [m |-> saveData([m1 EXCEPT !.userChats[userId] =
                                      [chats |-> rest, activeChatId |-> active2]]),
           res |-> Ok(userData.chats[k])]

getActiveChatDB(m, userId) ==
  LET g == getUserOrCreate(m.dbUsers, userId, NoUserData)
  IN [m |-> [m EXCEPT !.dbUsers = g.users], res |-> dbGetActiveChat(m.dbChats, g.user.id)]

getActiveChatJSON(m, userId) ==
  LET map == getUserData(m.userChats, userId)
      userData == map[userId]
      k == FindIndex(userData.chats, userData.activeChatId)
  IN [m |-> [m EXCEPT !.userChats = map],
      res |-> IF userData.activeChatId = NoChat THEN Err("NoActiveChat", 0)
              ELSE IF k = 0 THEN Err("ActiveChatNotFound", 0)
              ELSE Ok(userData.chats[k])]

getActiveChat(m, userId) ==
  IF m.useDatabase THEN getActiveChatDB(m, userId) ELSE getActiveChatJSON(m, userId)

\* the outcomes of getChatsDB: one per order getUserChats can return
getChatsDB(m, userId) ==
  LET g == getUserOrCreate(m.dbUsers, userId, NoUserData)
      activeChat == dbGetActiveChat(m.dbChats, g.user.id)
  IN {[m |-> [m EXCEPT !.dbUsers = g.users],
       res |-> Ok([chats |-> chats,
                   activeChatId |-> IF activeChat.success THEN activeChat.data.id ELSE NoChat])]
      : chats \in getUserChats(m.dbChats, g.user.id)}

\* getChatsJSON returns the array in the order it is stored in
getChatsJSON(m, userId) ==
  LET map == getUserData(m.userChats, userId)
  IN {[m |-> [m EXCEPT !.userChats = map],
       res |-> Ok([chats |-> map[userId].chats, activeChatId |-> map[userId].activeChatId])]}

getChats(m, userId) ==
  IF m.useDatabase THEN getChatsDB(m, userId) ELSE getChatsJSON(m, userId)

\* daysSinceLastUse > 30
Expired(chat, t) == t - chat.lastUsed > Retention

\* SweepUser removing only the first expired chat of the array
SweepUser_FirstOnly(userData, t) ==
  LET old == {k \in 1..Len(userData.chats) : Expired(userData.chats[k], t)}
      kept == IF old = {} THEN userData.chats
              ELSE Splice(userData.chats, CHOOSE k \in old : \A j \in old : k <= j)
  IN [chats |-> kept,
      activeChatId |->
        IF userData.activeChatId # NoChat /\ FindIndex(kept, userData.activeChatId) = 0
        THEN Replacement(kept) ELSE userData.activeChatId]

\* one entry of the sweep's loop over userChats.entries()
SweepUser(userData, t) ==
  LET kept == SelectSeq(userData.chats, LAMBDA c : ~Expired(c, t))
  IN [chats |-> kept,
      activeChatId |->
        IF userData.activeChatId # NoChat /\ FindIndex(kept, userData.activeChatId) = 0
        THEN Replacement(kept) ELSE userData.activeChatId]

\* the setInterval callback of startAutoCleanup; it walks the userChats map
\* whichever backend is in use
autoCleanup(m, t) ==
  LET swept == [u \in DOMAIN m.userChats |-> SweepUser(m.userChats[u], t)]
      cleaned == \E u \in DOMAIN m.userChats :
                   Len(swept[u].chats) < Len(m.userChats[u].chats)
  IN IF cleaned THEN saveData([m EXCEPT !.userChats = swept])
     ELSE [m EXCEPT !.userChats = swept]

(* ---------------------- DatabaseManager: feedback --------------------- *)
\* the rating column of a record that has none (feedback_text is not modelled)
NoRating == 0

\* CHECK (rating >= 1 AND rating <= 5); a NULL rating passes the check
RatingCheck(rating, feedbackType) ==
  feedbackType = "improvement_feedback" \/ (rating >= MinRating /\ rating <= MaxRating)

\* JSON.stringify(context), the text the column context holds, and JSON.parse
Stringify(context) == [json |-> context]
Parse(text) == text.json

\* what a handler passes as context when it has none
NoContext == [chatId |-> NoChat, personality |-> "undefined"]

\* DatabaseManager.saveFeedback: a row that violates the CHECK makes the
\* INSERT raise, and the catch returns the failure
saveFeedback(rows, seq, t, userId, commentId, rating, feedbackType, context) ==
  LET row == [id |-> seq + 1, user_id |-> userId, comment_id |-> commentId,
              rating |-> rating, feedback_type |-> feedbackType,
              context |-> Stringify(context), created_at |-> t]
  IN IF RatingCheck(rating, feedbackType)
     THEN [rows |-> rows \cup {row}, seq |-> seq + 1, res |-> Ok([id |-> seq + 1])]
     ELSE [rows |-> rows, seq |-> seq, res |-> Err("Constraint", 0)]

\* Number.prototype.toFixed(1) of total / count, in tenths: the nearest
\* tenth, the larger one of two equally near
ToFixed1(total, count) == (20 * total + count) \div (2 * count)

\* the sum of the ratings of a set of records that differ in their ids
RECURSIVE SumRatings(_)
SumRatings(S) ==
  IF S = {} THEN 0
  ELSE LET r == CHOOSE x \in S : TRUE IN r.rating + SumRatings(S \ {r})

\* DatabaseManager.getUserFeedbackStats: COUNT(*) of the user's rows, the
\* rating rows grouped by rating, the improvement rows
dbGetUserFeedbackStats(rows, userId) ==
  LET mine == {r \in rows : r.user_id = userId}
      rated == {r \in mine : r.feedback_type = "comment_rating"}
  IN [totalFeedback |-> Cardinality(mine),
      ratings |-> [k \in MinRating..MaxRating |-> Cardinality({r \in rated : r.rating = k})],
      extraRatings |-> {},
      improvementFeedback |->
        Cardinality({r \in mine : r.feedback_type = "improvement_feedback"}),
      averageRating |-> IF rated # {} THEN ToFixed1(SumRatings(rated), Cardinality(rated))
                        ELSE 0]

(* --------------------------- LearningManager -------------------------- *)
\* A learning manager is the record of its fields and of the tables its
\* dbManager works on:
\*   [useDatabase, feedbackCache, dbFeedback, feedbackSeq, dbUsers]
\* and a call returns the manager after the call and the value returned.

\* this.feedbackCache.get(userId) || []
CacheOf(lm, userId) ==
  IF userId \in DOMAIN lm.feedbackCache THEN lm.feedbackCache[userId] ELSE <<>>

\* feedbackCache.set(userId, []) when absent, then push
Push(lm, userId, record) ==
  [x \in DOMAIN lm.feedbackCache \cup {userId} |->
     IF x = userId THEN Append(CacheOf(lm, userId), record) ELSE lm.feedbackCache[x]]

saveCommentRatingDB(lm, t, userId, commentId, rating, context) ==
  LET g == getUserOrCreate(lm.dbUsers, userId, NoUserData)
      f == saveFeedback(lm.dbFeedback, lm.feedbackSeq, t, g.user.id, commentId, rating,
                        "comment_rating", context)
  IN [m |-> [lm EXCEPT !.dbUsers = g.users, !.dbFeedback = f.rows, !.feedbackSeq = f.seq],
      res |-> f.res]

\* the rating is stored as it is passed
saveCommentRatingJSON(lm, t, userId, commentId, rating, context) ==
  LET feedback == [id |-> lm.feedbackSeq + 1, commentId |-> commentId, rating |-> rating,
                   context |-> context, timestamp |-> t, type |-> "comment_rating"]
  IN [m |-> [lm EXCEPT !.feedbackCache = Push(lm, userId, feedback),
                       !.feedbackSeq = lm.feedbackSeq + 1],
      res |-> Ok(feedback)]

saveCommentRating(lm, t, userId, commentId, rating, context) ==
  IF lm.useDatabase THEN saveCommentRatingDB(lm, t, userId, commentId, rating, context)
  ELSE saveCommentRatingJSON(lm, t, userId, commentId, rating, context)

\* saveImprovementFeedback writes to the feedbackCache under either backend
saveImprovementFeedback(lm, t, userId, commentId, context) ==
  LET feedbackData == [id |-> lm.feedbackSeq + 1, commentId |-> commentId,
                       rating |-> NoRating, context |-> context,
                       timestamp |-> t,
                       type |-> "improvement_feedback"]
  IN [m |-> [lm EXCEPT !.feedbackCache = Push(lm, userId, feedbackData),
                       !.feedbackSeq = lm.feedbackSeq + 1],
      res |-> Ok(feedbackData)]

\* the sum of the ratings of the rating records of a sequence
RECURSIVE TotalRating(_)
TotalRating(userFeedback) ==
  IF userFeedback = <<>> THEN 0
  ELSE (IF Head(userFeedback).type = "comment_rating" THEN Head(userFeedback).rating ELSE 0)
       + TotalRating(Tail(userFeedback))

\* LearningManager.getUserFeedbackStats reads the feedbackCache under either
\* backend.  stats.ratings[feedback.rating]++ on a rating outside 1..5 makes
\* a further key whose value is NaN: extraRatings holds these keys.  The
\* average is in tenths.
getUserFeedbackStats(lm, userId) ==
  LET userFeedback == CacheOf(lm, userId)
      rated == SelectSeq(userFeedback, LAMBDA f : f.type = "comment_rating")
  IN [totalFeedback |-> Len(userFeedback),
      ratings |-> [k \in MinRating..MaxRating |->
                     Len(SelectSeq(rated, LAMBDA f : f.rating = k))],
      extraRatings |-> {rated[k].rating : k \in 1..Len(rated)} \ (MinRating..MaxRating),
      improvementFeedback |->
        Len(SelectSeq(userFeedback, LAMBDA f : f.type = "improvement_feedback")),
      averageRating |-> IF Len(rated) > 0 THEN ToFixed1(TotalRating(rated), Len(rated))
                        ELSE 0]

\* feedbackDate < cutoffDate
FeedbackExpired(feedback, t) == feedback.timestamp < t - FeedbackRetention

\* the setInterval callback of LearningManager.startAutoCleanup: it walks the
\* feedbackCache whichever backend is in use, and logs cleanedCount
feedbackAutoCleanup(lm, t) ==
  LET kept == [u \in DOMAIN lm.feedbackCache |->
                 SelectSeq(lm.feedbackCache[u], LAMBDA f : ~FeedbackExpired(f, t))]
      RECURSIVE Removed(_)
      Removed(U) == IF U = {} THEN 0
                    ELSE LET u == CHOOSE x \in U : TRUE
                         IN Len(lm.feedbackCache[u]) - Len(kept[u]) + Removed(U \ {u})
  IN [m |-> [lm EXCEPT !.feedbackCache = kept],
      cleanedCount |-> Removed(DOMAIN lm.feedbackCache)]

(* --------------------------- storage faults --------------------------- *)
\* A call may run while one statement of the database raises (disk full, I/O
\* error, locked file).  A fault names the statement that raises whenever the
\* call reaches it; better-sqlite3 commits every statement on its own, so the
\* statements before it have taken effect.
Faults == {NoFault,
           "users.find",        \* SELECT * FROM users WHERE telegram_id = ?
           "users.insert",      \* INSERT INTO users
           "users.reload",      \* SELECT * FROM users WHERE id = ?
           "chats.list",        \* SELECT * FROM chats WHERE user_id = ? ORDER BY
           "chats.deactivate",  \* UPDATE chats SET is_active = 0
           "chats.insert",      \* INSERT INTO chats
           "chats.reload",      \* SELECT * FROM chats WHERE id = ?
           "chats.activate",    \* UPDATE chats SET is_active = 1
           "chats.active",      \* SELECT ... WHERE user_id = ? AND is_active = 1
           "feedback.insert"}   \* INSERT INTO feedback

\* error.message of the exception a statement raises
StorageError == Err("Storage", 0)

\* getUserOrCreate under a fault: its catch logs the error and throws it
\* again, so the call ends with an exception (threw) and returns no row
getUserOrCreateFault(users, telegramId, userData, fault) ==
  LET g == getUserOrCreate(users, telegramId, userData)
      isNew == g.users # users
  IN IF fault = "users.find" \/ (isNew /\ fault = "users.insert")
     THEN [users |-> users, user |-> g.user, threw |-> TRUE]
     ELSE IF isNew /\ fault = "users.reload"
     THEN [users |-> g.users, user |-> g.user, threw |-> TRUE]
     ELSE [users |-> g.users, user |-> g.user, threw |-> FALSE]

\* DatabaseManager.createChat under a fault: the catch returns the failure;
\* what the statements before the fault wrote stays written
dbCreateChatFault(chats, seq, t, userId, name, fault) ==
  LET c == dbCreateChat(chats, seq, t, userId, name)
  IN IF fault = "chats.deactivate"
     THEN [chats |-> chats, seq |-> seq, res |-> StorageError]
     ELSE IF fault = "chats.insert"
     THEN [chats |-> DeactivateAll(chats, userId), seq |-> seq, res |-> StorageError]
     ELSE IF fault = "chats.reload"
     THEN [chats |-> c.chats, seq |-> c.seq, res |-> StorageError]
     ELSE c

\* DatabaseManager.getUserChats under a fault: the catch returns []
getUserChatsFault(chats, userId, fault) ==
  IF fault = "chats.list" THEN {<<>>} ELSE getUserChats(chats, userId)

\* DatabaseManager.getActiveChat under a fault: the catch returns the failure
dbGetActiveChatFault(chats, userId, fault) ==
  IF fault = "chats.active" THEN StorageError ELSE dbGetActiveChat(chats, userId)

\* A call of ChatManager under a fault returns the manager after the call,
\* the value returned and whether the call threw instead of returning.
Returned(out) == [m |-> out.m, res |-> out.res, threw |-> FALSE]

createChatDBFault(m, t, userId, chatName, fault) ==
  LET g == getUserOrCreateFault(m.dbUsers, userId, NoUserData, fault)
      m1 == [m EXCEPT !.dbUsers = g.users]
      c == dbCreateChatFault(m.dbChats, m.chatSeq, t, g.user.id, chatName, fault)
  IN IF g.threw
     THEN Returned([m |-> m1, res |-> StorageError])
     ELSE IF \E userChats_ \in getUserChatsFault(m.dbChats, g.user.id, fault) :
               LimitReached(Len(userChats_))
     THEN Returned([m |-> m1, res |-> Err("LimitExceeded", MaxChatsPerUser)])
     ELSE IF NameTooLong(chatName)
     THEN Returned([m |-> m1, res |-> Err("NameTooLong", MaxChatNameLength)])
     ELSE Returned([m |-> [m1 EXCEPT !.dbChats = c.chats, !.chatSeq = c.seq,
                                     !.userSettings = getUserSettings(@, userId)],
                    res |-> c.res])

\* createChatJSON touches the database nowhere, and saveData catches the
\* errors of its own writeFile
createChatFault(m, t, userId, chatName, fault) ==
  IF m.useDatabase THEN createChatDBFault(m, t, userId, chatName, fault)
  ELSE Returned(createChatJSON(m, t, userId, chatName))

\* the outcomes of getChatsDB under a fault
getChatsDBFault(m, userId, fault) ==
  LET g == getUserOrCreateFault(m.dbUsers, userId, NoUserData, fault)
      m1 == [m EXCEPT !.dbUsers = g.users]
      activeChat == dbGetActiveChatFault(m.dbChats, g.user.id, fault)
  IN IF g.threw
     THEN {Returned([m |-> m1, res |-> StorageError])}
     ELSE {Returned([m |-> m1,
                     res |-> Ok([chats |-> chats,
                                 activeChatId |-> IF activeChat.success
                                                  THEN activeChat.data.id ELSE NoChat])])
           : chats \in getUserChatsFault(m.dbChats, g.user.id, fault)}

getChatsFault(m, userId, fault) ==
  IF m.useDatabase THEN getChatsDBFault(m, userId, fault)
  ELSE {Returned(o) : o \in getChatsJSON(m, userId)}

\* selectChatDB under a fault: its two UPDATEs are committed one by one
selectChatDBFault(m, t, userId, chatId, fault) ==
  LET g == getUserOrCreateFault(m.dbUsers, userId, NoUserData, fault)
      m1 == [m EXCEPT !.dbUsers = g.users]
      found == IF fault = "chats.list" THEN {}
               ELSE {r \in UserRows(m.dbChats, g.user.id) : r.id = chatId}
  IN IF g.threw
     THEN Returned([m |-> m1, res |-> StorageError])
     ELSE IF found = {}
     THEN Returned([m |-> m1, res |-> Err("ChatNotFound", 0)])
     ELSE IF fault = "chats.deactivate"
     THEN Returned([m |-> m1, res |-> StorageError])
     ELSE IF fault = "chats.activate"
     THEN Returned([m |-> [m1 EXCEPT !.dbChats = DeactivateAll(m.dbChats, g.user.id)],
                    res |-> StorageError])
     ELSE Returned(selectChatDB(m, t, userId, chatId))

selectChatFault(m, t, userId, chatId, fault) ==
  IF m.useDatabase THEN selectChatDBFault(m, t, userId, chatId, fault)
  ELSE Returned(selectChatJSON(m, t, userId, chatId))

getActiveChatDBFault(m, userId, fault) ==
  LET g == getUserOrCreateFault(m.dbUsers, userId, NoUserData, fault)
      m1 == [m EXCEPT !.dbUsers = g.users]
  IN IF g.threw
     THEN Returned([m |-> m1, res |-> StorageError])
     ELSE Returned([m |-> m1, res |-> dbGetActiveChatFault(m.dbChats, g.user.id, fault)])

getActiveChatFault(m, userId, fault) ==
  IF m.useDatabase THEN getActiveChatDBFault(m, userId, fault)
  ELSE Returned(getActiveChatJSON(m, userId))

\* saveCommentRatingDB under a fault
saveCommentRatingDBFault(lm, t, userId, commentId, rating, context, fault) ==
  LET g == getUserOrCreateFault(lm.dbUsers, userId, NoUserData, fault)
      lm1 == [lm EXCEPT !.dbUsers = g.users]
  IN IF g.threw \/ fault = "feedback.insert"
     THEN Returned([m |-> lm1, res |-> StorageError])
     ELSE Returned(saveCommentRatingDB(lm, t, userId, commentId, rating, context))

\* saveCommentRatingJSON touches the database nowhere, and saveFeedback
\* catches the errors of its own writeFile
saveCommentRatingFault(lm, t, userId, commentId, rating, context, fault) ==
  IF lm.useDatabase THEN saveCommentRatingDBFault(lm, t, userId, commentId, rating, context, fault)
  ELSE Returned(saveCommentRatingJSON(lm, t, userId, commentId, rating, context))


(* ------------------------------- QwenApi ------------------------------ *)
\* generation max retries, the configured default
DefaultMaxRetries == 3

\* the base of the delay between two attempts, in milliseconds
RetryDelay == 2000

\* the maxRetries argument: null, or a number
NoMaxRetries == [given |-> FALSE, n |-> 0]
MaxRetriesInputs ==
  {NoMaxRetries} \cup {[given |-> TRUE, n |-> k] : k \in -1..MaxAttempts}

\* maxRetries || config.qwen.maxRetries: null and 0 are falsy
Retries(maxRetries) ==
  IF maxRetries.given /\ maxRetries.n # 0 THEN maxRetries.n ELSE DefaultMaxRetries

\* the errors a request is rejected with
ApiErrors == {"ECONNREFUSED", "429"}

\* setTimeout(resolve, 2000 * attempt) keeping the delay of the first attempt
Delay_Fixed(attempt) == RetryDelay

\* setTimeout(resolve, 2000 * attempt)
Delay(attempt) == RetryDelay * attempt

\* what a call returns: nothing, or an object with the field success
Undefined == [type |-> "undefined"]
Success == [type |-> "object", success |-> TRUE, error |-> "none"]
Failure(error) == [type |-> "object", success |-> FALSE, error |-> error]

NoCall == [pc |-> "idle"]

\* The call from the head of an iteration of its for loop to its next await
\* or return: the loop's test, validateText, the request.
Iteration(g, attempt) ==
  IF ~(attempt <= g.retries)
  THEN [g EXCEPT !.pc = "returned", !.attempt = attempt, !.result = Undefined]
  ELSE IF ~g.valid
  THEN [g EXCEPT !.pc = "returned", !.attempt = attempt,
                 !.result = Failure("validation")]
  ELSE [g EXCEPT !.pc = "posting", !.attempt = attempt, !.requests = @ + 1]

\* generateComments is called
GenerateComments(valid, maxRetries) ==
  /\ gen.pc \in {"idle", "returned"}
  /\ gen' = Iteration([pc |-> "called", valid |-> valid, maxRetries |-> maxRetries,
                       retries |-> Retries(maxRetries), attempt |-> 0,
                       requests |-> 0, responses |-> <<>>, delays |-> <<>>,
                       result |-> Undefined], 1)
  /\ call' = "generateComments"
  /\ UNCHANGED <<useDatabase, monitor, userChats, dbUsers, dbChats, chatSeq, userSettings, files,
                 now, result, userStates, inFlight, generations, learnVars>>

\* client.post resolves: the call returns the comments
PostResolves ==
  /\ gen.pc = "posting"
  /\ gen' = [gen EXCEPT !.pc = "returned", !.responses = Append(@, "ok"),
                        !.result = Success]
  /\ UNCHANGED <<useDatabase, monitor, userChats, dbUsers, dbChats, chatSeq, userSettings, files,
                 now, call, result, userStates, inFlight, generations, learnVars>>

\* client.post rejects: the last attempt returns handleApiError(error), an
\* earlier one waits
PostRejects(error) ==
  /\ gen.pc = "posting"
  /\ gen' = IF gen.attempt = gen.retries
            THEN [gen EXCEPT !.pc = "returned", !.responses = Append(@, error),
                             !.result = Failure(error)]
            ELSE [gen EXCEPT !.pc = "waiting", !.responses = Append(@, error),
                             !.delays = Append(@, Delay(gen.attempt))]
  /\ UNCHANGED <<useDatabase, monitor, userChats, dbUsers, dbChats, chatSeq, userSettings, files,
                 now, call, result, userStates, inFlight, generations, learnVars>>

\* the timer of the delay fires: the next iteration
TimerFires ==
  /\ gen.pc = "waiting"
  /\ gen' = Iteration(gen, gen.attempt + 1)
  /\ UNCHANGED <<useDatabase, monitor, userChats, dbUsers, dbChats, chatSeq, userSettings, files,
                 now, call, result, userStates, inFlight, generations, learnVars>>

(* ------------------------- the calls as actions ----------------------- *)
\* a manager as a call finds it: its fields, the files it has written, no
\* write fault, nothing logged by saveData yet
M(i) == [useDatabase |-> useDatabase[i], userChats |-> userChats[i],
         dbUsers |-> dbUsers[i], dbChats |-> dbChats[i], chatSeq |-> chatSeq[i],
         userSettings |-> userSettings[i], files |-> files[i],
         writeFault |-> NoFault, log |-> NoLog]

ChatIds == 1..MaxCreates

\* the managers and return values of a call become the next state
Apply(out) ==
  /\ userChats' = [i \in Managers |-> out[i].m.userChats]
  /\ dbUsers' = [i \in Managers |-> out[i].m.dbUsers]
  /\ dbChats' = [i \in Managers |-> out[i].m.dbChats]
  /\ chatSeq' = [i \in Managers |-> out[i].m.chatSeq]
  /\ userSettings' = [i \in Managers |-> out[i].m.userSettings]
  /\ files' = [i \in Managers |-> out[i].m.files]
  /\ result' = [i \in Managers |-> out[i].res.success]
  /\ UNCHANGED <<useDatabase, monitor>>

Tick(d) ==
  /\ (now + d) \div (Retention + 1) <= 1
  /\ (now + d) % (Retention + 1) <= MaxSeconds
  /\ now' = now + d
  /\ UNCHANGED <<useDatabase, monitor, userChats, dbUsers, dbChats, chatSeq, userSettings, files, call, result, botVars, learnVars>>

CreateChat(userId, chatName) ==
  /\ \A i \in Managers : chatSeq[i] < MaxCreates
  /\ Apply([i \in Managers |-> createChat(M(i), now, userId, chatName)])
  /\ call' = "createChat"
  /\ UNCHANGED <<now, botVars, learnVars>>

GetChats(userId) ==
  /\ \E out \in [Managers -> UNION {getChats(M(i), userId) : i \in Managers}] :
       /\ \A i \in Managers : out[i] \in getChats(M(i), userId)
       /\ Apply(out)
  /\ call' = "getChats"
  /\ UNCHANGED <<now, botVars, learnVars>>

SelectChat(userId, chatId) ==
  /\ Apply([i \in Managers |-> selectChat(M(i), now, userId, chatId)])
  /\ call' = "selectChat"
  /\ UNCHANGED <<now, botVars, learnVars>>

RenameChat(userId, chatId, newName) ==
  /\ Apply([i \in Managers |-> renameChat(M(i), userId, chatId, newName)])
  /\ call' = "renameChat"
  /\ UNCHANGED <<now, botVars, learnVars>>

DeleteChat(userId, chatId) ==
  /\ Apply([i \in Managers |-> deleteChat(M(i), userId, chatId)])
  /\ call' = "deleteChat"
  /\ UNCHANGED <<now, botVars, learnVars>>

GetActiveChat(userId) ==
  /\ Apply([i \in Managers |-> getActiveChat(M(i), userId)])
  /\ call' = "getActiveChat"
  /\ UNCHANGED <<now, botVars, learnVars>>

\* createChat while a statement of the database raises
CreateChatFault(userId, chatName, fault) ==
  /\ \A i \in Managers : chatSeq[i] < MaxCreates
  /\ Apply([i \in Managers |-> createChatFault(M(i), now, userId, chatName, fault)])
  /\ call' = "createChat"
  /\ UNCHANGED <<now, botVars, learnVars>>

\* the timer of startAutoCleanup fires
AutoCleanup ==
  /\ Apply([i \in Managers |-> [m |-> autoCleanup(M(i), now), res |-> Ok(<<>>)]])
  /\ call' = "autoCleanup"
  /\ UNCHANGED <<now, botVars, learnVars>>

(* ------------------------------ BotMonitor ---------------------------- *)
\* this.maxRestarts
MaxRestarts == 10

\* the exit code of a child that has not exited; the codes a bot exits with
NoCode == "none"
ExitCodes == {0, 1}

\* a child as spawn returns it: the listeners of 'error' and 'exit' are set
NewChild == [alive |-> TRUE, error |-> FALSE, exit |-> FALSE, code |-> NoCode]

\* the monitor after start(): the first bot is spawned, no restart counted, no
\* timer set, process.exit not called
Started == [restartCount |-> 0, timers |-> 0, exited |-> FALSE, children |-> <<NewChild>>]

\* handleRestart: the count goes up; a timer for spawnBot is set, or the
\* monitor exits when the count is past maxRestarts
handleRestart(mon) ==
  IF mon.restartCount + 1 <= MaxRestarts
  THEN [mon EXCEPT !.restartCount = @ + 1, !.timers = @ + 1]
  ELSE [mon EXCEPT !.restartCount = @ + 1, !.exited = TRUE]

\* the listener of 'error': the bot could not be spawned
onError(mon, c) ==
  handleRestart([mon EXCEPT !.children[c].error = TRUE, !.children[c].alive = FALSE])

\* the listener of 'exit'
onExit(mon, c, code) ==
  LET gone == [mon EXCEPT !.children[c].exit = TRUE, !.children[c].alive = FALSE,
                          !.children[c].code = code]
  IN IF code # 0 /\ mon.restartCount < MaxRestarts THEN handleRestart(gone)
     ELSE IF mon.restartCount >= MaxRestarts THEN [gone EXCEPT !.exited = TRUE]
     ELSE gone

\* the timer of handleRestart fires: spawnBot
spawnBot(mon) == [mon EXCEPT !.timers = @ - 1, !.children = Append(@, NewChild)]

\* what the monitor leaves alone
notMonitor == <<useDatabase, userChats, dbUsers, dbChats, chatSeq, userSettings, files, now,
                call, result, botVars, learnVars>>

\* 'error' is delivered for a child; 'exit' may or may not follow it
ChildError(c) ==
  /\ ~monitor.exited
  /\ c \in 1..Len(monitor.children)
  /\ ~monitor.children[c].error /\ ~monitor.children[c].exit
  /\ monitor' = onError(monitor, c)
  /\ UNCHANGED notMonitor

\* 'exit' is delivered for a child
ChildExit(c, code) ==
  /\ ~monitor.exited
  /\ c \in 1..Len(monitor.children)
  /\ ~monitor.children[c].exit
  /\ monitor' = onExit(monitor, c, code)
  /\ UNCHANGED notMonitor

\* a timer of handleRestart fires
RestartTimer ==
  /\ ~monitor.exited
  /\ monitor.timers > 0
  /\ Len(monitor.children) < MaxChildren
  /\ monitor' = spawnBot(monitor)
  /\ UNCHANGED notMonitor

NextMonitor ==
  \/ \E c \in 1..MaxChildren : ChildError(c)
  \/ \E c \in 1..MaxChildren, code \in ExitCodes : ChildExit(c, code)
  \/ RestartTimer

EmptyMap == [u \in {} |-> EmptyUserData]

InitManagers(flags) ==
  /\ useDatabase = flags
  /\ userChats = [i \in DOMAIN flags |-> EmptyMap]
  /\ dbUsers = [i \in DOMAIN flags |-> {}]
  /\ dbChats = [i \in DOMAIN flags |-> {}]
  /\ chatSeq = [i \in DOMAIN flags |-> 0]
  /\ userSettings = [i \in DOMAIN flags |-> EmptySettings]
  /\ files = [i \in DOMAIN flags |-> [userChats |-> EmptyMap, userSettings |-> EmptySettings]]
  /\ now = 0
  /\ call = "init"
  /\ result = [i \in DOMAIN flags |-> TRUE]
  /\ userStates = [u \in {} |-> 0]
  /\ inFlight = [u \in Users |-> <<>>]
  /\ generations = 0
  /\ gen = NoCall
  /\ monitor = Started

\* LearningManager after its constructor and init()
InitLearning(flag) ==
  /\ lmUseDatabase = flag
  /\ feedbackCache = [u \in {} |-> <<>>]
  /\ dbFeedback = {}
  /\ feedbackSeq = 0

\* one bot; init() of each manager picks the structured backend when its
\* dbManager.init() opens the database and the flat files otherwise
Init == \E b, l \in BOOLEAN : InitManagers("bot" :> b) /\ InitLearning(l)

\* two managers fed the same calls, one per backend
InitPair == InitManagers(("db" :> TRUE) @@ ("json" :> FALSE)) /\ InitLearning(TRUE)

(* -------------------------- TelegramBotHandler ------------------------ *)
\* updateChatStats reads and writes the userChats map under either backend
updateChatStats(m, t, userId, chatId) ==
  LET map == getUserData(m.userChats, userId)
      k == FindIndex(map[userId].chats, chatId)
  IN IF k = 0 THEN [m EXCEPT !.userChats = map]
     ELSE saveData([m EXCEPT !.userChats =
                      [map EXCEPT ![userId].chats[k] =
                         [@ EXCEPT !.lastUsed = t, !.messageCount = @ + 1]]])

\* the bot's ChatManager
Bot == "bot"

\* 'Основной чат', the name /start gives the first chat
DefaultChatName == Name(1)

\* what {...userState} yields when userStates has no entry for the user
NoData == [chats |-> <<>>, chatId |-> NoChat]

NoUserState == [state |-> "undefined", personality |-> "undefined",
                context |-> NoContext, commentId |-> 0, data |-> NoData]

MapGet(map, userId) == IF userId \in DOMAIN map THEN map[userId] ELSE NoUserState
MapSet(map, userId, v) == [x \in DOMAIN map \cup {userId} |-> IF x = userId THEN v ELSE map[x]]
\* userStates.clear() in the place of userStates.delete(userId)
MapDelete_All(map, userId) == [x \in {} |-> NoUserState]
MapDelete(map, userId) == [x \in DOMAIN map \ {userId} |-> map[x]]

\* the manager a handler's call leaves behind becomes the bot's manager
BotApply(out) ==
  /\ userChats' = [userChats EXCEPT ![Bot] = out.m.userChats]
  /\ dbUsers' = [dbUsers EXCEPT ![Bot] = out.m.dbUsers]
  /\ dbChats' = [dbChats EXCEPT ![Bot] = out.m.dbChats]
  /\ chatSeq' = [chatSeq EXCEPT ![Bot] = out.m.chatSeq]
  /\ userSettings' = [userSettings EXCEPT ![Bot] = out.m.userSettings]
  /\ files' = [files EXCEPT ![Bot] = out.m.files]
  /\ result' = [result EXCEPT ![Bot] = out.res.success]
  /\ UNCHANGED <<useDatabase, monitor>>

\* /start: the first chat is created when the userChats map holds none
HandleStart(userId) ==
  LET map == getUserData(userChats[Bot], userId)
      m1 == [M(Bot) EXCEPT !.userChats = map]
  IN /\ chatSeq[Bot] < MaxCreates
     /\ IF Len(map[userId].chats) = 0
        THEN BotApply(createChat(m1, now, userId, DefaultChatName))
        ELSE BotApply([m |-> m1, res |-> Ok(<<>>)])
     /\ call' = "handleStart"
     /\ UNCHANGED <<now, botVars, learnVars>>

\* a personality button: the next text is the post to comment on
HandlePersonalitySelection(userId) ==
  /\ userStates' = MapSet(userStates, userId,
                          [NoUserState EXCEPT !.state = "waiting_for_text",
                                              !.personality = "timur"])
  /\ call' = "handlePersonalitySelection"
  /\ UNCHANGED <<useDatabase, monitor, userChats, dbUsers, dbChats, chatSeq, userSettings, files, now, result,
                 inFlight, generations, gen, learnVars>>

\* processTextForComments up to its await of generateComments; getUserModel
\* enters the user's default settings: without an
\* active chat it answers and returns, otherwise the handler is suspended
\* holding the session state and the active chat it has read
ProcessTextForComments(userId) ==
  LET got == getActiveChat(M(Bot), userId)
      handler == [pc |-> "generating", userState |-> MapGet(userStates, userId),
                  chatId |-> got.res.data.id, commentId |-> generations + 1]
  IN /\ BotApply([m |-> [got.m EXCEPT !.userSettings = getUserSettings(@, userId)],
                   res |-> got.res])
     /\ IF got.res.success
        THEN /\ generations < MaxGenerations
             /\ Len(inFlight[userId]) < MaxInFlight
             /\ inFlight' = [inFlight EXCEPT ![userId] = Append(@, handler)]
             /\ generations' = generations + 1
        ELSE UNCHANGED <<inFlight, generations>>
     /\ UNCHANGED <<now, userStates, gen, learnVars>>

\* generateComments returns to the k-th suspended handler of the user; after
\* a success the handler calls updateChatStats and is suspended on its saveData
GenerateReturns(userId, k, ok) ==
  /\ k \in 1..Len(inFlight[userId])
  /\ inFlight[userId][k].pc = "generating"
  /\ IF ok
     THEN /\ BotApply([m |-> updateChatStats(M(Bot), now, userId, inFlight[userId][k].chatId),
                       res |-> Ok(<<>>)])
          /\ inFlight' = [inFlight EXCEPT ![userId][k].pc = "saving"]
     ELSE /\ inFlight' = [inFlight EXCEPT ![userId] = Splice(@, k)]
          /\ UNCHANGED <<useDatabase, monitor, userChats, dbUsers, dbChats, chatSeq, userSettings, files, result>>
  /\ UNCHANGED <<now, call, userStates, generations, gen, learnVars>>

\* updateChatStats returns: the handler stores the generation context on top
\* of the session state it read before the generation, and ends
ContextSaved(userId, k) ==
  /\ k \in 1..Len(inFlight[userId])
  /\ inFlight[userId][k].pc = "saving"
  /\ LET h == inFlight[userId][k]
     IN userStates' = MapSet(userStates, userId,
                             [h.userState EXCEPT
                                !.context = [chatId |-> h.chatId,
                                             personality |-> h.userState.personality],
                                !.commentId = h.commentId])
  /\ inFlight' = [inFlight EXCEPT ![userId] = Splice(@, k)]
  /\ UNCHANGED <<useDatabase, monitor, userChats, dbUsers, dbChats, chatSeq, userSettings, files, now, call, result,
                 generations, gen, learnVars>>


(* ------------------ TelegramBotHandler: the session flows ------------- *)
\* The texts users send, as sequences of characters.
Digits == {"0", "1", "2", "3", "4", "5", "6", "7", "8", "9"}

DigitValue(c) ==
  CASE c = "0" -> 0 [] c = "1" -> 1 [] c = "2" -> 2 [] c = "3" -> 3 [] c = "4" -> 4
    [] c = "5" -> 5 [] c = "6" -> 6 [] c = "7" -> 7 [] c = "8" -> 8 [] c = "9" -> 9

NaN == [nan |-> TRUE, value |-> 0]

\* the number the leading digits of a text spell, and how many there are
RECURSIVE LeadingDigits(_, _, _)
LeadingDigits(text, count, value) ==
  IF text = <<>> \/ Head(text) \notin Digits THEN [count |-> count, value |-> value]
  ELSE LeadingDigits(Tail(text), count + 1, 10 * value + DigitValue(Head(text)))

\* parseInt(text): an optional sign, then the longest run of digits; what
\* follows the digits is ignored; NaN when there is no digit
ParseInt(text) ==
  LET negative == text # <<>> /\ Head(text) = "-"
      rest == IF negative THEN Tail(text) ELSE text
      d == LeadingDigits(rest, 0, 0)
  IN IF d.count = 0 THEN NaN
     ELSE [nan |-> FALSE, value |-> IF negative THEN 0 - d.value ELSE d.value]

\* parseInt(text) - 1; NaN - 1 is NaN
ChatIndex(text) == LET i == ParseInt(text) IN [nan |-> i.nan, value |-> i.value - 1]

\* chatIndex >= 0 && chatIndex < chats.length; a comparison with NaN is false
ValidIndex(text, chats) ==
  LET i == ChatIndex(text) IN ~i.nan /\ i.value >= 0 /\ i.value < Len(chats)

\* chats[chatIndex].id
SelectedChat(text, chats) == chats[ChatIndex(text).value + 1]

\* The texts of the runs: an index, zero, a number past every list, a negative
\* number, a word, an index followed by a letter, a word longer than a chat
\* name may be
Texts == {<<"1">>, <<"2">>, <<"0">>, <<"9">>, <<"-", "1">>, <<"x">>, <<"1", "x">>,
          <<"x", "x", "x">>}

(* ------------------- the learning manager's calls --------------------- *)
\* the bot's LearningManager; its dbManager opens the database file of the
\* bot's ChatManager, so the two work on one users table
L == [useDatabase |-> lmUseDatabase, feedbackCache |-> feedbackCache,
      dbFeedback |-> dbFeedback, feedbackSeq |-> feedbackSeq, dbUsers |-> dbUsers[Bot]]

\* the learning manager after a call becomes the next state
LearnApply(lm, success) ==
  /\ feedbackCache' = lm.feedbackCache
  /\ dbFeedback' = lm.dbFeedback
  /\ feedbackSeq' = lm.feedbackSeq
  /\ dbUsers' = [dbUsers EXCEPT ![Bot] = lm.dbUsers]
  /\ result' = [result EXCEPT ![Bot] = success]
  /\ UNCHANGED <<lmUseDatabase, useDatabase, monitor, userChats, dbChats, chatSeq, userSettings, files, now, botVars>>

SaveCommentRating(userId, commentId, rating) ==
  /\ feedbackSeq < MaxFeedback
  /\ LET out == saveCommentRating(L, now, userId, commentId, rating, NoContext)
     IN LearnApply(out.m, out.res.success)
  /\ call' = "saveCommentRating"

SaveImprovementFeedback(userId, commentId) ==
  /\ feedbackSeq < MaxFeedback
  /\ LET out == saveImprovementFeedback(L, now, userId, commentId, NoContext)
     IN LearnApply(out.m, out.res.success)
  /\ call' = "saveImprovementFeedback"

\* /learning: the statistics are computed and shown; nothing is stored
GetUserFeedbackStats(userId) ==
  /\ LearnApply(L, getUserFeedbackStats(L, userId).totalFeedback >= 0)
  /\ call' = "getUserFeedbackStats"

\* the timer of LearningManager.startAutoCleanup fires
FeedbackAutoCleanup ==
  /\ LearnApply(feedbackAutoCleanup(L, now).m, TRUE)
  /\ call' = "feedbackAutoCleanup"

\* a direct call of DatabaseManager.getUserOrCreate
GetUserOrCreate(telegramId, userData) ==
  /\ LearnApply([L EXCEPT !.dbUsers = getUserOrCreate(dbUsers[Bot], telegramId, userData).users],
                TRUE)
  /\ call' = "getUserOrCreate"

FeedbackTick(d) ==
  /\ now + d >= FeedbackRetention
  /\ now + d <= FeedbackRetention + 1 + MaxSeconds
  /\ now' = now + d
  /\ UNCHANGED <<useDatabase, monitor, userChats, dbUsers, dbChats, chatSeq, userSettings, files, call, result, botVars,
                 learnVars>>


(* --------------- TelegramBotHandler: the handlers of the flows -------- *)
\* The bot as a handler finds it: the session states and the two managers.
\* A handler is followed to its end as one step: what it awaits between its
\* call of a manager and its last write of userStates is the transport.
B == [userStates |-> userStates, m |-> M(Bot), lm |-> L]

\* what a handler leaves behind, whether its call succeeded, and its answer
Outcome(us, m, lm, success, reply) ==
  [userStates |-> us, m |-> m, lm |-> lm, success |-> success, reply |-> reply]

\* the cases of the switch of handleUserState
KnownStates == {"waiting_for_text", "waiting_for_model", "waiting_for_chat_name",
                "waiting_for_chat_selection", "waiting_for_rename_chat_selection",
                "waiting_for_delete_chat_selection", "waiting_for_new_chat_name",
                "waiting_for_improvement_feedback"}

\* { state: ... }
StateOnly(state) == [NoUserState EXCEPT !.state = state]

\* /selectchat, /renamechat, /deletechat: the chats are listed and the state
\* is entered when getChats returns at least one chat
handleChatCommand(b, userId, state, got) ==
  LET chats == got.res.data.chats
      ids == [k \in 1..Len(chats) |-> chats[k].id]
  IN IF got.res.success /\ Len(chats) > 0
     THEN Outcome(MapSet(b.userStates, userId,
                         [StateOnly(state) EXCEPT !.data = [chats |-> ids, chatId |-> NoChat]]),
                  got.m, b.lm, TRUE, "list")
     ELSE Outcome(b.userStates, got.m, b.lm, FALSE, "no_chats")

handleModelSelection(b, userId, text) ==
  LET r == setUserModel(b.m, userId, text)
  IN Outcome(MapDelete(b.userStates, userId), r.m, b.lm, r.res.success, "model")

handleChatNameInput(b, t, userId, text, fault) ==
  LET r == createChatFault(b.m, t, userId, text, fault)
  IN Outcome(MapDelete(b.userStates, userId), r.m, b.lm, r.res.success /\ ~r.threw,
             IF r.res.success /\ ~r.threw THEN "created" ELSE "create_failed")

handleChatSelection(b, t, userId, text, chats, fault) ==
  IF ValidIndex(text, chats)
  THEN LET r == selectChatFault(b.m, t, userId, SelectedChat(text, chats), fault)
       IN Outcome(MapDelete(b.userStates, userId), r.m, b.lm, r.res.success /\ ~r.threw,
                  IF r.res.success /\ ~r.threw THEN "selected" ELSE "select_failed")
  ELSE Outcome(b.userStates, b.m, b.lm, FALSE, "invalid_index")

handleRenameChatSelection(b, userId, text, chats) ==
  IF ValidIndex(text, chats)
  THEN Outcome(MapSet(b.userStates, userId,
                      [StateOnly("waiting_for_new_chat_name") EXCEPT
                         !.data = [chats |-> <<>>, chatId |-> SelectedChat(text, chats)]]),
               b.m, b.lm, TRUE, "new_name")
  ELSE Outcome(b.userStates, b.m, b.lm, FALSE, "invalid_index")

handleNewChatNameInput(b, userId, text) ==
  LET r == renameChat(b.m, userId, b.userStates[userId].data.chatId, text)
  IN Outcome(MapDelete(b.userStates, userId), r.m, b.lm, r.res.success,
             IF r.res.success THEN "renamed" ELSE "rename_failed")

handleDeleteChatSelection(b, userId, text, chats) ==
  IF ValidIndex(text, chats)
  THEN LET r == deleteChat(b.m, userId, SelectedChat(text, chats))
       IN Outcome(MapDelete(b.userStates, userId), r.m, b.lm, r.res.success,
                  IF r.res.success THEN "deleted" ELSE "delete_failed")
  ELSE Outcome(b.userStates, b.m, b.lm, FALSE, "invalid_index")

\* The improvement calls keep the original comment where they fail; the
\* feedback is saved once, with the commentId and the context of the state
\* the handler was given, and the state is deleted.
handleImprovementFeedback(b, t, userId, userState, improved) ==
  LET r == saveImprovementFeedback(b.lm, t, userId, userState.commentId, userState.context)
  IN Outcome(MapDelete(b.userStates, userId), b.m, r.m, r.res.success,
             IF improved THEN "improved" ELSE "original")

\* the default case of the switch keeping the state it does not know
UnknownState_Kept(b, userId) == Outcome(b.userStates, b.m, b.lm, FALSE, "unknown_state")

\* the default case of the switch
UnknownState(b, userId) ==
  Outcome(MapDelete(b.userStates, userId), b.m, b.lm, FALSE, "unknown_state")

\* handleUserState but for the case waiting_for_text, which is
\* processTextForComments
handleUserState(b, t, userId, text, fault, improved) ==
  LET userState == b.userStates[userId]
      state == userState.state
  IN CASE state = "waiting_for_model" -> handleModelSelection(b, userId, text)
       [] state = "waiting_for_chat_name" -> handleChatNameInput(b, t, userId, text, fault)
       [] state = "waiting_for_chat_selection" ->
            handleChatSelection(b, t, userId, text, userState.data.chats, fault)
       [] state = "waiting_for_rename_chat_selection" ->
            handleRenameChatSelection(b, userId, text, userState.data.chats)
       [] state = "waiting_for_delete_chat_selection" ->
            handleDeleteChatSelection(b, userId, text, userState.data.chats)
       [] state = "waiting_for_new_chat_name" -> handleNewChatNameInput(b, userId, text)
       [] state = "waiting_for_improvement_feedback" ->
            handleImprovementFeedback(b, t, userId, userState, improved)
       [] OTHER -> UnknownState(b, userId)

\* data.split('_')[2] of rate_<rating>_comment_<time>_<random>_<timestamp>: the
\* word comment, the id of no generation
RatedCommentId == 0

\* a rating button that leaves the state in place after the save
handleCommentRating_Kept(b, t, userId, commentId, rating, fault) ==
  IF userId \notin DOMAIN b.userStates \/ b.userStates[userId].context = NoContext
  THEN Outcome(b.userStates, b.m, b.lm, FALSE, "no_context")
  ELSE LET r == saveCommentRatingFault(b.lm, t, userId, commentId, rating,
                                       b.userStates[userId].context, fault)
       IN Outcome(b.userStates, b.m, r.m, r.res.success /\ ~r.threw,
                  IF r.res.success /\ ~r.threw THEN "rated" ELSE "rating_failed")

\* a rating button
handleCommentRating(b, t, userId, commentId, rating, fault) ==
  IF userId \notin DOMAIN b.userStates \/ b.userStates[userId].context = NoContext
  THEN Outcome(b.userStates, b.m, b.lm, FALSE, "no_context")
  ELSE LET r == saveCommentRatingFault(b.lm, t, userId, commentId, rating,
                                       b.userStates[userId].context, fault)
       IN IF r.res.success /\ ~r.threw
          THEN Outcome(MapDelete(b.userStates, userId), b.m, r.m, TRUE, "rated")
          ELSE Outcome(b.userStates, b.m, r.m, FALSE, "rating_failed")

\* the improvement button moving on without the context
handleCommentImprovement_Bare(b, userId) ==
  IF userId \notin DOMAIN b.userStates \/ b.userStates[userId].context = NoContext
  THEN Outcome(b.userStates, b.m, b.lm, FALSE, "no_context")
  ELSE Outcome(MapSet(b.userStates, userId, StateOnly("waiting_for_improvement_feedback")),
               b.m, b.lm, TRUE, "how_to_improve")

\* the improvement button
handleCommentImprovement(b, userId) ==
  IF userId \notin DOMAIN b.userStates \/ b.userStates[userId].context = NoContext
  THEN Outcome(b.userStates, b.m, b.lm, FALSE, "no_context")
  ELSE Outcome(MapSet(b.userStates, userId,
                      [b.userStates[userId] EXCEPT !.state = "waiting_for_improvement_feedback"]),
               b.m, b.lm, TRUE, "how_to_improve")

\* what a handler leaves behind becomes the next state; the two managers work
\* on one users table, and a handler calls one of them
SessionApplyManagers(o) ==
  /\ userChats' = [userChats EXCEPT ![Bot] = o.m.userChats]
  /\ dbUsers' = [dbUsers EXCEPT ![Bot] =
                   IF o.lm.dbUsers # dbUsers[Bot] THEN o.lm.dbUsers ELSE o.m.dbUsers]
  /\ dbChats' = [dbChats EXCEPT ![Bot] = o.m.dbChats]
  /\ chatSeq' = [chatSeq EXCEPT ![Bot] = o.m.chatSeq]
  /\ userSettings' = [userSettings EXCEPT ![Bot] = o.m.userSettings]
  /\ files' = [files EXCEPT ![Bot] = o.m.files]
  /\ feedbackCache' = o.lm.feedbackCache
  /\ dbFeedback' = o.lm.dbFeedback
  /\ feedbackSeq' = o.lm.feedbackSeq
  /\ result' = [result EXCEPT ![Bot] = o.success]

SessionApply(o) ==
  /\ userStates' = o.userStates
  /\ SessionApplyManagers(o)
  /\ UNCHANGED <<useDatabase, monitor, lmUseDatabase, now, inFlight, generations, gen>>

\* /newchat
HandleNewChat(userId) ==
  /\ SessionApply(Outcome(MapSet(userStates, userId, StateOnly("waiting_for_chat_name")),
                          M(Bot), L, TRUE, "name"))
  /\ call' = "handleNewChat"

\* /setmodel
HandleSetModel(userId) ==
  /\ SessionApply(Outcome(MapSet(userStates, userId, StateOnly("waiting_for_model")),
                          M(Bot), L, TRUE, "model"))
  /\ call' = "handleSetModel"

\* /selectchat
HandleSelectChat(userId) ==
  /\ \E got \in getChats(M(Bot), userId) :
       SessionApply(handleChatCommand(B, userId, "waiting_for_chat_selection", got))
  /\ call' = "handleSelectChat"

\* /renamechat
HandleRenameChat(userId) ==
  /\ \E got \in getChats(M(Bot), userId) :
       SessionApply(handleChatCommand(B, userId, "waiting_for_rename_chat_selection", got))
  /\ call' = "handleRenameChat"

\* /deletechat
HandleDeleteChat(userId) ==
  /\ \E got \in getChats(M(Bot), userId) :
       SessionApply(handleChatCommand(B, userId, "waiting_for_delete_chat_selection", got))
  /\ call' = "handleDeleteChat"

\* a rating button is pressed
HandleCommentRating(userId, rating, fault) ==
  /\ feedbackSeq < MaxFeedback
  /\ SessionApply(handleCommentRating(B, now, userId, RatedCommentId, rating, fault))
  /\ call' = "handleCommentRating"

\* the improvement button is pressed
HandleCommentImprovement(userId) ==
  /\ SessionApply(handleCommentImprovement(B, userId))
  /\ call' = "handleCommentImprovement"

\* a text that is no command: handleMessage, then processTextForComments when
\* userStates holds nothing for the user and handleUserState when it does
HandleMessage(userId, text, fault, improved) ==
  /\ call' = "handleMessage"
  /\ IF userId \notin DOMAIN userStates \/ userStates[userId].state = "waiting_for_text"
     THEN ProcessTextForComments(userId)
     ELSE /\ chatSeq[Bot] < MaxSavedChats
          /\ feedbackSeq < MaxFeedback
          /\ SessionApply(handleUserState(B, now, userId, text, fault, improved))

(* -------------------- the calls under a storage fault ----------------- *)
GetChatsFault(userId, fault) ==
  /\ \E out \in [Managers -> UNION {getChatsFault(M(i), userId, fault) : i \in Managers}] :
       /\ \A i \in Managers : out[i] \in getChatsFault(M(i), userId, fault)
       /\ Apply(out)
  /\ call' = "getChats"
  /\ UNCHANGED <<now, botVars, learnVars>>

SelectChatFault(userId, chatId, fault) ==
  /\ Apply([i \in Managers |-> selectChatFault(M(i), now, userId, chatId, fault)])
  /\ call' = "selectChat"
  /\ UNCHANGED <<now, botVars, learnVars>>

GetActiveChatFault(userId, fault) ==
  /\ Apply([i \in Managers |-> getActiveChatFault(M(i), userId, fault)])
  /\ call' = "getActiveChat"
  /\ UNCHANGED <<now, botVars, learnVars>>

SaveCommentRatingFault(userId, commentId, rating, fault) ==
  /\ feedbackSeq < MaxFeedback
  /\ LET out == saveCommentRatingFault(L, now, userId, commentId, rating, NoContext, fault)
     IN LearnApply(out.m, out.res.success)
  /\ call' = "saveCommentRating"

\* a direct call of DatabaseManager.getUserOrCreate that may end by throwing
GetUserOrCreateFault(telegramId, userData, fault) ==
  /\ LET g == getUserOrCreateFault(dbUsers[Bot], telegramId, userData, fault)
     IN LearnApply([L EXCEPT !.dbUsers = g.users], ~g.threw)
  /\ call' = "getUserOrCreate"

\* the public calls of ChatManager made for the users U with the names N
Calls(U, N) ==
  \/ \E u \in U, n \in N : CreateChat(u, n)
  \/ \E u \in U : GetChats(u)
  \/ \E u \in U, c \in ChatIds : SelectChat(u, c)
  \/ \E u \in U, c \in ChatIds, n \in N : RenameChat(u, c, n)
  \/ \E u \in U, c \in ChatIds : DeleteChat(u, c)
  \/ \E u \in U : GetActiveChat(u)

\* one user, the clock and the sweep
Next ==
  \/ \E d \in Waits : Tick(d)
  \/ Calls({User}, Names)
  \/ AutoCleanup

Spec == Init /\ [][Next]_vars

\* the two backends side by side, fed the same calls
NextPair == Calls({User}, Names)

SpecPair == InitPair /\ [][NextPair]_vars

\* several users at one instant, every name short enough
NextUsers == Calls(Users, {Name(MaxChatNameLength)})

SpecUsers == Init /\ [][NextUsers]_vars

\* the events the bot receives, for several users
NextBot ==
  \/ \E u \in Users : HandleStart(u)
  \/ \E u \in Users : HandlePersonalitySelection(u)
  \/ \E u \in Users : HandleMessage(u, <<"x">>, NoFault, TRUE)
  \/ \E u \in Users, k \in 1..MaxInFlight, ok \in BOOLEAN : GenerateReturns(u, k, ok)
  \/ \E u \in Users, k \in 1..MaxInFlight : ContextSaved(u, k)

SpecBot == Init /\ [][NextBot]_vars

\* the calls of one user, any of them under a storage fault
NextFaults ==
  \/ \E n \in Names \ {Name(1)}, f \in Faults : CreateChatFault(User, n, f)
  \/ \E f \in Faults : GetChatsFault(User, f)
  \/ \E c \in ChatIds, f \in Faults : SelectChatFault(User, c, f)
  \/ \E f \in Faults : GetActiveChatFault(User, f)
  \/ \E c \in CommentIds, f \in Faults : SaveCommentRatingFault(User, c, MaxRating, f)
  \/ \E f \in Faults : GetUserOrCreateFault(User, NoUserData, f)

SpecFaults == Init /\ [][NextFaults]_vars

\* the feedback of several users, the clock and the feedback sweep
NextLearn ==
  \/ \E d \in FeedbackWaits : FeedbackTick(d)
  \/ \E u \in Users, c \in CommentIds, r \in RatingInputs : SaveCommentRating(u, c, r)
  \/ \E u \in Users, c \in CommentIds : SaveImprovementFeedback(u, c)
  \/ \E u \in Users : GetUserFeedbackStats(u)
  \/ FeedbackAutoCleanup

SpecLearn == Init /\ [][NextLearn]_vars

\* the users table: direct calls of getUserOrCreate with profile data among
\* the calls of ChatManager that look the user up
NextDb ==
  \/ \E u \in Users, d \in UserDatas : GetUserOrCreate(u, d)
  \/ \E u \in Users : CreateChat(u, Name(MaxChatNameLength))
  \/ \E u \in Users : GetActiveChat(u)

SpecDb == Init /\ [][NextDb]_vars


(* ----------------------- calls under a write fault -------------------- *)
\* a manager as a call finds it while the named writeFile of saveData fails
WriteFault(i, fault) == [M(i) EXCEPT !.writeFault = fault]

WriteInputs == WriteFaults \cup {NoFault}

CreateChatWrite(userId, chatName, fault) ==
  /\ \A i \in Managers : chatSeq[i] < MaxSavedChats
  /\ Apply([i \in Managers |-> createChat(WriteFault(i, fault), now, userId, chatName)])
  /\ call' = "createChat"
  /\ UNCHANGED <<now, botVars, learnVars>>

SelectChatWrite(userId, chatId, fault) ==
  /\ Apply([i \in Managers |-> selectChat(WriteFault(i, fault), now, userId, chatId)])
  /\ call' = "selectChat"
  /\ UNCHANGED <<now, botVars, learnVars>>

RenameChatWrite(userId, chatId, newName, fault) ==
  /\ Apply([i \in Managers |-> renameChat(WriteFault(i, fault), userId, chatId, newName)])
  /\ call' = "renameChat"
  /\ UNCHANGED <<now, botVars, learnVars>>

DeleteChatWrite(userId, chatId, fault) ==
  /\ Apply([i \in Managers |-> deleteChat(WriteFault(i, fault), userId, chatId)])
  /\ call' = "deleteChat"
  /\ UNCHANGED <<now, botVars, learnVars>>

\* updateChatStats returns nothing
UpdateChatStatsWrite(userId, chatId, fault) ==
  /\ \A i \in Managers : userId \in DOMAIN userChats[i] =>
       \A k \in 1..Len(userChats[i][userId].chats) :
         userChats[i][userId].chats[k].messageCount < MaxMessages
  /\ Apply([i \in Managers |->
             [m |-> updateChatStats(WriteFault(i, fault), now, userId, chatId),
              res |-> Ok(<<>>)]])
  /\ call' = "updateChatStats"
  /\ UNCHANGED <<now, botVars, learnVars>>

\* the calls of one user, any writeFile of saveData failing or none
NextFiles ==
  \/ \E f \in WriteInputs : CreateChatWrite(User, Name(MaxChatNameLength), f)
  \/ \E c \in ChatIds, f \in WriteInputs : SelectChatWrite(User, c, f)
  \/ \E c \in ChatIds, f \in WriteInputs : RenameChatWrite(User, c, Name(1), f)
  \/ \E c \in ChatIds, f \in WriteInputs : DeleteChatWrite(User, c, f)
  \/ \E c \in ChatIds, f \in WriteInputs : UpdateChatStatsWrite(User, c, f)
  \/ GetChats(User)
  \/ GetActiveChat(User)

SpecFiles == Init /\ [][NextFiles]_vars


\* calls of generateComments, one after the other
NextGen ==
  \/ \E valid \in BOOLEAN, maxRetries \in MaxRetriesInputs : GenerateComments(valid, maxRetries)
  \/ PostResolves
  \/ \E error \in ApiErrors : PostRejects(error)
  \/ TimerFires

SpecGen == Init /\ [][NextGen]_vars


\* the texts of the runs that follow the chat flows: an index, zero, an index
\* followed by a letter, a long word; and the faults of their calls
SessionTexts == {<<"1">>, <<"0">>, <<"1", "x">>, <<"x", "x", "x">>}
SessionFaults == {NoFault, "chats.reload"}

\* a flow is under way: the next text goes to handleUserState
InFlow(userId) ==
  userId \in DOMAIN userStates /\ userStates[userId].state # "waiting_for_text"

\* one user's chat commands and the texts that answer them
NextChatFlows ==
  \/ HandleStart(User)
  \/ HandleNewChat(User)
  \/ HandleSetModel(User)
  \/ HandleSelectChat(User)
  \/ HandleRenameChat(User)
  \/ HandleDeleteChat(User)
  \/ \E text \in SessionTexts, f \in SessionFaults :
       InFlow(User) /\ HandleMessage(User, text, f, TRUE)

SpecChatFlows == Init /\ [][NextChatFlows]_vars

\* the faults of the calls of the runs that follow the feedback
FeedbackFaults == {NoFault, "feedback.insert"}

\* one user's posts, generations, ratings and improvements, and /newchat in
\* between; an event is sent when the handler of the one before has ended
NextFeedbackFlows ==
  \/ inFlight[User] = <<>> /\ HandleStart(User)
  \/ inFlight[User] = <<>> /\ HandlePersonalitySelection(User)
  \/ inFlight[User] = <<>> /\ HandleNewChat(User)
  \/ \E improved \in BOOLEAN :
       inFlight[User] = <<>> /\ HandleMessage(User, <<"x">>, NoFault, improved)
  \/ \E k \in 1..MaxInFlight, ok \in BOOLEAN : GenerateReturns(User, k, ok)
  \/ \E k \in 1..MaxInFlight : ContextSaved(User, k)
  \/ \E f \in FeedbackFaults : inFlight[User] = <<>> /\ HandleCommentRating(User, MaxRating, f)
  \/ inFlight[User] = <<>> /\ HandleCommentImprovement(User)

SpecFeedbackFlows == Init /\ [][NextFeedbackFlows]_vars


\* the events of the two users, interleaved: /newchat, texts, the generations
\* they start and the rating button; a user sends an event when the handler
\* of the one before has ended, the other user at any time
NextTwoUsers ==
  \/ \E u \in Users : inFlight[u] = <<>> /\ HandleNewChat(u)
  \/ \E u \in Users : inFlight[u] = <<>> /\ HandleMessage(u, <<"1">>, NoFault, TRUE)
  \/ \E u \in Users, k \in 1..MaxInFlight : GenerateReturns(u, k, TRUE)
  \/ \E u \in Users, k \in 1..MaxInFlight : ContextSaved(u, k)
  \/ \E u \in Users : inFlight[u] = <<>> /\ HandleCommentRating(u, MaxRating, NoFault)

SpecTwoUsers == Init /\ [][NextTwoUsers]_vars


\* migrate-to-database.js, one chat of the flat file: the user's row is found
\* or made, then DatabaseManager.createChat is called with its id and the
\* chat's name, past the ChatManager
MigrateChat(telegramId, name) ==
  /\ useDatabase[Bot]
  /\ chatSeq[Bot] < MaxCreates
  /\ LET g == getUserOrCreate(dbUsers[Bot], telegramId, NoUserData)
         c == dbCreateChat(dbChats[Bot], chatSeq[Bot], now, g.user.id, name)
     IN BotApply([m |-> [M(Bot) EXCEPT !.dbUsers = g.users, !.dbChats = c.chats,
                                        !.chatSeq = c.seq],
                  res |-> c.res])
  /\ call' = "migrateChats"
  /\ UNCHANGED <<now, botVars, learnVars>>

\* the bot's calls and the migration script on one database
NextMigrate ==
  \/ \E n \in Names : CreateChat(User, n)
  \/ \E c \in ChatIds : DeleteChat(User, c)
  \/ \E n \in Names : MigrateChat(User, n)

SpecMigrate == Init /\ [][NextMigrate]_vars


\* `comment_${Date.now()}_${random}` as the fields its underscores separate;
\* the commentId n of the model stands for the time and the random part of
\* the n-th generation
CommentIdFields(commentId) == <<"comment", commentId, commentId>>

\* createRatingKeyboard: `rate_${rating}_${commentId}_${timestamp}`, as the
\* fields data.split('_') yields
RatingCallbackData(rating, commentId, timestamp) ==
  <<"rate", rating>> \o commentId \o <<timestamp>>

\* handleCommentRating: parseInt(data.split('_')[1]) and data.split('_')[2]
ParseCallbackData(data) == [rating |-> data[2], commentId |-> <<data[3]>>]


\* one user's events with no wait for the handler of the one before: texts
\* that start generations, /newchat and the rating button while generations
\* are in flight
NextRace ==
  \/ HandleStart(User)
  \/ HandleNewChat(User)
  \/ HandleMessage(User, <<"x">>, NoFault, TRUE)
  \/ \E k \in 1..MaxInFlight, ok \in BOOLEAN : GenerateReturns(User, k, ok)
  \/ \E k \in 1..MaxInFlight : ContextSaved(User, k)
  \/ HandleCommentRating(User, MaxRating, NoFault)

SpecRace == Init /\ [][NextRace]_vars


\* handleCommentRating followed step by step: from the button to the await
\* of the message that thanks the user, which comes after the save and before
\* userStates.delete; the handler waits in inFlight with the commentId of the
\* state it found
RatingPressed(userId, rating, fault) ==
  LET o == handleCommentRating(B, now, userId, RatedCommentId, rating, fault)
      handler == [pc |-> "rating", success |-> o.success,
                  commentId |-> MapGet(userStates, userId).commentId]
  IN /\ feedbackSeq < MaxFeedback
     /\ Len(inFlight[userId]) < MaxInFlight
     /\ SessionApplyManagers(o)
     /\ inFlight' = [inFlight EXCEPT ![userId] =
                       IF o.reply = "no_context" THEN @ ELSE Append(@, handler)]
     /\ call' = "handleCommentRating"
     /\ UNCHANGED <<userStates, useDatabase, monitor, lmUseDatabase, now, generations, gen>>

\* the message is sent: the state is deleted when the save succeeded
RatingAnswered(userId, k) ==
  /\ k \in 1..Len(inFlight[userId])
  /\ inFlight[userId][k].pc = "rating"
  /\ userStates' = IF inFlight[userId][k].success THEN MapDelete(userStates, userId)
                   ELSE userStates
  /\ inFlight' = [inFlight EXCEPT ![userId] = Splice(@, k)]
  /\ UNCHANGED <<useDatabase, monitor, userChats, dbUsers, dbChats, chatSeq, userSettings, files,
                 now, call, result, generations, gen, learnVars>>

\* one user's generation and the rating buttons pressed on it, a second press
\* arriving while the first is being handled
NextRatingRace ==
  \/ HandleStart(User)
  \/ HandleMessage(User, <<"x">>, NoFault, TRUE)
  \/ \E k \in 1..MaxInFlight : GenerateReturns(User, k, TRUE)
  \/ \E k \in 1..MaxInFlight : ContextSaved(User, k)
  \/ \E r \in {MinRating, MaxRating}, f \in FeedbackFaults : RatingPressed(User, r, f)
  \/ \E k \in 1..MaxInFlight : RatingAnswered(User, k)

SpecRatingRace == Init /\ [][NextRatingRace]_vars


(* ------------------------ saveData step by step ----------------------- *)
\* A mutating call of the flat-file manager up to the first await of
\* saveData: the maps are changed, userChats is serialised and its writeFile
\* is started; the files are as they were.  The caller waits in inFlight with
\* the text being written.
CreateChatStarts(userId, chatName) ==
  LET r == createChat(M(Bot), now, userId, chatName)
      writer == [pc |-> "user_chats.json", data |-> r.m.userChats]
  IN /\ ~useDatabase[Bot]
     /\ chatSeq[Bot] < MaxSavedChats
     /\ Len(inFlight[userId]) < MaxInFlight
     /\ BotApply([m |-> [r.m EXCEPT !.files = files[Bot]], res |-> r.res])
     /\ inFlight' = [inFlight EXCEPT ![userId] =
                       IF r.res.success THEN Append(@, writer) ELSE @]
     /\ call' = "createChat"
     /\ UNCHANGED <<now, userStates, generations, gen, learnVars>>

\* a writeFile of user_chats.json completes, whichever of those under way:
\* fs.writeFile orders concurrent writes of one file in no way.  saveData goes
\* on to serialise userSettings as it is now and starts the second writeFile.
ChatsWritten(userId, k) ==
  /\ k \in 1..Len(inFlight[userId])
  /\ inFlight[userId][k].pc = "user_chats.json"
  /\ files' = [files EXCEPT ![Bot].userChats = inFlight[userId][k].data]
  /\ inFlight' = [inFlight EXCEPT ![userId][k] =
                    [pc |-> "user_settings.json", data |-> userSettings[Bot]]]
  /\ UNCHANGED <<useDatabase, monitor, userChats, dbUsers, dbChats, chatSeq, userSettings, now,
                 call, result, userStates, generations, gen, learnVars>>

\* a writeFile of user_settings.json completes and saveData returns
SettingsWritten(userId, k) ==
  /\ k \in 1..Len(inFlight[userId])
  /\ inFlight[userId][k].pc = "user_settings.json"
  /\ files' = [files EXCEPT ![Bot].userSettings = inFlight[userId][k].data]
  /\ inFlight' = [inFlight EXCEPT ![userId] = Splice(@, k)]
  /\ UNCHANGED <<useDatabase, monitor, userChats, dbUsers, dbChats, chatSeq, userSettings, now,
                 call, result, userStates, generations, gen, learnVars>>

\* chats created for the two users, a call arriving while the saveData of
\* the one before is still writing
NextWrites ==
  \/ \E u \in Users, n \in {Name(1), Name(MaxChatNameLength)} : CreateChatStarts(u, n)
  \/ \E u \in Users, k \in 1..MaxInFlight : ChatsWritten(u, k)
  \/ \E u \in Users, k \in 1..MaxInFlight : SettingsWritten(u, k)

SpecWrites == Init /\ [][NextWrites]_vars


SpecMonitor == Init /\ [][NextMonitor]_vars

(* ------------------------------ properties ---------------------------- *)
\* What a caller observes of a manager m: the id getActiveChat returns
\* (NoChat when it fails), the lists getChats can return, the ids listed.
ActiveOf(m, userId) ==
  LET r == getActiveChat(m, userId).res IN IF r.success THEN r.data.id ELSE NoChat

Listings(m, userId) ==
  {[k \in 1..Len(o.res.data.chats) |-> o.res.data.chats[k].id] : o \in getChats(m, userId)}

ListedIds(m, userId) == UNION {{s[k] : k \in 1..Len(s)} : s \in Listings(m, userId)}

\* the chats a manager holds for a user, with all their fields
Held(m, userId) ==
  IF m.useDatabase
  THEN {r \in m.dbChats : \E w \in m.dbUsers : w.telegram_id = userId /\ w.id = r.user_id}
  ELSE LET chats == getUserData(m.userChats, userId)[userId].chats
       IN {chats[k] : k \in 1..Len(chats)}

\* C1: at most one chat of a user is active: at most one row of the user has
\* is_active = 1, and activeChatId is the id of at most one chat of the array.
C1_AtMostOneActive ==
  \A i \in Managers :
    /\ \A r1, r2 \in dbChats[i] :
         (r1.user_id = r2.user_id /\ r1.is_active = 1 /\ r2.is_active = 1) => r1 = r2
    /\ \A u \in DOMAIN userChats[i] :
         Cardinality({k \in 1..Len(userChats[i][u].chats) :
                        userChats[i][u].chats[k].id = userChats[i][u].activeChatId}) <= 1

\* a select or a create has just left a user of the structured backend with
\* several chats, one of them active
C1_Witness ==
  \E i \in Managers :
    /\ useDatabase[i] /\ result[i] /\ call \in {"createChat", "selectChat"}
    /\ \E r1, r2 \in dbChats[i] :
         r1.user_id = r2.user_id /\ r1.id # r2.id /\ r1.is_active = 1 /\ r2.is_active = 0

\* C2: after a successful createChat the new chat is the user's active chat
\* and no other chat of the user is active.
C2_NewChatIsActive ==
  \A i \in Managers, u \in Users, n \in Names :
    LET r == createChat(M(i), now, u, n)
    IN r.res.success =>
         /\ ActiveOf(r.m, u) = r.res.data.id
         /\ \A c \in Held(r.m, u) :
              (r.m.useDatabase /\ c.is_active = 1) => c.id = r.res.data.id

\* C3: with maxChatsPerUser chats createChat fails with the limit error that
\* names the limit and changes no chat and not the active chat; no user ever
\* has more than maxChatsPerUser chats.
C3_LimitEnforced ==
  \A i \in Managers, u \in Users :
    /\ Cardinality(Held(M(i), u)) <= MaxChatsPerUser
    /\ Cardinality(ListedIds(M(i), u)) >= MaxChatsPerUser =>
         \A n \in Names :
           LET r == createChat(M(i), now, u, n)
           IN /\ ~r.res.success
              /\ r.res.error = [kind |-> "LimitExceeded", arg |-> MaxChatsPerUser]
              /\ Held(r.m, u) = Held(M(i), u)
              /\ Listings(r.m, u) = Listings(M(i), u)
              /\ ActiveOf(r.m, u) = ActiveOf(M(i), u)

\* a createChat has just failed for a user who holds maxChatsPerUser chats
C3_Witness ==
  \E i \in Managers, u \in Users :
    /\ call = "createChat" /\ ~result[i]
    /\ Cardinality(Held(M(i), u)) = MaxChatsPerUser

\* C4: no user has two events being handled at once: while a handler of the
\* user is suspended on its generation or on the save that follows, no
\* further handler of that user runs up to its own await.
C4_OneEventPerUser == \A u \in Users : Len(inFlight[u]) <= 1

\* C5: fed the same calls, the manager on the structured backend and the one
\* on the flat files return the same success or failure and agree on the chats
\* listed, their order and the active chat.
C5_BackendsAgree ==
  ({"db", "json"} \subseteq Managers) =>
    /\ result["db"] = result["json"]
    /\ \A u \in Users :
         /\ Listings(M("db"), u) = Listings(M("json"), u)
         /\ ActiveOf(M("db"), u) = ActiveOf(M("json"), u)

\* when the chat was last created, selected or used, as the backend records it
LastUpdate(m, chat) == IF m.useDatabase THEN chat.updated_at ELSE chat.lastUsed

\* the active chat of the user in m2 is none of its chats less recent than another
ActiveIsMostRecent(m2, userId) ==
  \A a, c \in Held(m2, userId) :
    a.id = ActiveOf(m2, userId) => LastUpdate(m2, c) <= LastUpdate(m2, a)

\* C6: when deleteChat or the sweep removes the active chat of a user and
\* chats remain, the most recently updated of them becomes active.
C6_ReplacementIsMostRecent ==
  \A i \in Managers, u \in Users :
    LET a == ActiveOf(M(i), u)
        deleted == deleteChat(M(i), u, a).m
        swept == autoCleanup(M(i), now)
    IN a # NoChat =>
         /\ (a \notin ListedIds(deleted, u) /\ ListedIds(deleted, u) # {}) =>
              (ActiveOf(deleted, u) # NoChat /\ ActiveIsMostRecent(deleted, u))
         /\ (a \notin ListedIds(swept, u) /\ ListedIds(swept, u) # {}) =>
              (ActiveOf(swept, u) # NoChat /\ ActiveIsMostRecent(swept, u))

\* C7: deleting the active chat of a user with one other chat makes the other
\* chat active; deleting the only chat leaves getActiveChat failing.
C7_DeleteActive ==
  \A i \in Managers, u \in Users :
    LET a == ActiveOf(M(i), u)
        ids == ListedIds(M(i), u)
        deleted == deleteChat(M(i), u, a).m
    IN a # NoChat =>
         /\ Cardinality(ids) = 2 => ActiveOf(deleted, u) \in ids \ {a}
         /\ Cardinality(ids) = 1 => ~getActiveChat(deleted, u).res.success

\* C8: deleteChat of a chat that getChats lists succeeds, returns that chat
\* and removes exactly it; of any other id it fails as not found and changes
\* nothing.
C8_DeleteListed ==
  \A i \in Managers, u \in Users, c \in ChatIds :
    LET r == deleteChat(M(i), u, c)
    IN IF c \in ListedIds(M(i), u)
       THEN /\ r.res.success
            /\ r.res.data.id = c
            /\ ListedIds(r.m, u) = ListedIds(M(i), u) \ {c}
       ELSE /\ ~r.res.success
            /\ r.res.error.kind = "ChatNotFound"
            /\ Held(r.m, u) = Held(M(i), u)
            /\ ActiveOf(r.m, u) = ActiveOf(M(i), u)

\* C9: selectChat with an id that is none of the user's chats fails as not
\* found and leaves the active chat of every user as it was; with one of the
\* user's chats it succeeds, getActiveChat returns that chat and no other
\* chat of the user is active.
C9_SelectChecked ==
  \A i \in Managers, u \in Users, c \in ChatIds :
    LET r == selectChat(M(i), now, u, c)
    IN IF c \in ListedIds(M(i), u)
       THEN /\ r.res.success
            /\ ActiveOf(r.m, u) = c
            /\ \A h \in Held(r.m, u) : (r.m.useDatabase /\ h.is_active = 1) => h.id = c
            /\ \A v \in Users \ {u} : ActiveOf(r.m, v) = ActiveOf(M(i), v)
       ELSE /\ ~r.res.success
            /\ r.res.error.kind = "ChatNotFound"
            /\ \A v \in Users : ActiveOf(r.m, v) = ActiveOf(M(i), v)

\* a selectChat has just failed while each of two users has a chat, so that
\* an id of the other user's chat is among the ids refused
C9_Witness ==
  \E i \in Managers :
    /\ call = "selectChat" /\ ~result[i]
    /\ \A u \in Users : ActiveOf(M(i), u) # NoChat

\* C10: getChats lists the most recently created or selected chat first.
C10_MostRecentFirst ==
  \A i \in Managers, u \in Users :
    /\ \A n \in Names :
         LET r == createChat(M(i), now, u, n)
         IN r.res.success => \A s \in Listings(r.m, u) : s[1] = r.res.data.id
    /\ \A c \in ChatIds :
         LET r == selectChat(M(i), now, u, c)
         IN r.res.success => \A s \in Listings(r.m, u) : s[1] = c

\* the is_active flag of every chat row held for the user
Flags(m, userId) ==
  IF m.useDatabase THEN {<<r.id, r.is_active>> : r \in Held(m, userId)} ELSE {}

\* C11: a createChat that fails, be it for the limit, the length of the name
\* or a statement of the database raising, leaves the chat that was active
\* active: the deactivation of the siblings and the insertion of the new chat
\* take effect together or not at all.
C11_FailedCreateKeepsActive ==
  \A i \in Managers, u \in Users, n \in Names, f \in Faults :
    LET r == createChatFault(M(i), now, u, n, f)
    IN (~r.res.success /\ ActiveOf(M(i), u) # NoChat) =>
         /\ ActiveOf(r.m, u) = ActiveOf(M(i), u)
         /\ \A x \in Flags(M(i), u) : x \in Flags(r.m, u)

\* The feedback records a learning manager holds for a user, in its cache and
\* in the feedback table, as <<id, type, rating, creation time>>.
Stored(lm, userId) ==
  {<<f.id, f.type, f.rating, f.timestamp>> :
     f \in {CacheOf(lm, userId)[k] : k \in 1..Len(CacheOf(lm, userId))}}
  \cup {<<r.id, r.feedback_type, r.rating, r.created_at>> :
          r \in {x \in lm.dbFeedback :
                   \E w \in lm.dbUsers : w.telegram_id = userId /\ w.id = x.user_id}}

StoredRatings(lm, userId) == {x \in Stored(lm, userId) : x[2] = "comment_rating"}
StoredImprovements(lm, userId) == {x \in Stored(lm, userId) : x[2] = "improvement_feedback"}

\* C12: a successful saveCommentRating of a rating r adds one to totalFeedback
\* and to ratings[r] of the user's statistics and to no other count; a
\* successful saveImprovementFeedback adds one to totalFeedback and to
\* improvementFeedback and to no other count.
C12_SavedFeedbackCounted ==
  \A u \in Users, c \in CommentIds :
    LET before == getUserFeedbackStats(L, u)
    IN /\ \A r \in MinRating..MaxRating :
            LET out == saveCommentRating(L, now, u, c, r, NoContext)
                after == getUserFeedbackStats(out.m, u)
            IN out.res.success =>
                 /\ after.totalFeedback = before.totalFeedback + 1
                 /\ after.ratings = [before.ratings EXCEPT ![r] = @ + 1]
                 /\ after.improvementFeedback = before.improvementFeedback
       /\ LET out == saveImprovementFeedback(L, now, u, c, NoContext)
              after == getUserFeedbackStats(out.m, u)
          IN out.res.success =>
               /\ after.totalFeedback = before.totalFeedback + 1
               /\ after.ratings = before.ratings
               /\ after.improvementFeedback = before.improvementFeedback + 1

\* C13: saveCommentRating of a rating outside 1..5 fails and writes nothing:
\* the feedback cache, the feedback table and the user's statistics are as
\* they were.
C13_InvalidRatingRejected ==
  \A u \in Users, c \in CommentIds, r \in RatingInputs \ (MinRating..MaxRating) :
    LET out == saveCommentRating(L, now, u, c, r, NoContext)
    IN /\ ~out.res.success
       /\ out.m.feedbackCache = L.feedbackCache
       /\ out.m.dbFeedback = L.dbFeedback
       /\ getUserFeedbackStats(out.m, u) = getUserFeedbackStats(L, u)

\* the sum of the ratings of a set of stored records
RECURSIVE SumStored(_)
SumStored(S) ==
  IF S = {} THEN 0 ELSE LET x == CHOOSE y \in S : TRUE IN x[3] + SumStored(S \ {x})

\* the sum of a function's values over a set of its arguments
RECURSIVE SumOver(_, _)
SumOver(f, D) ==
  IF D = {} THEN 0 ELSE LET k == CHOOSE y \in D : TRUE IN f[k] + SumOver(f, D \ {k})

\* C14: in the statistics of a user ratings[k] is the number of the user's
\* stored rating records of value k, improvementFeedback the number of stored
\* improvement records, totalFeedback the sum of these counts, and
\* averageRating the mean of the ratings of the rating records to one
\* decimal, zero when there is none.
C14_StatsMatchRecords ==
  \A u \in Users :
    LET stats == getUserFeedbackStats(L, u)
        rated == StoredRatings(L, u)
    IN /\ \A k \in MinRating..MaxRating :
            stats.ratings[k] = Cardinality({x \in rated : x[3] = k})
       /\ stats.improvementFeedback = Cardinality(StoredImprovements(L, u))
       /\ stats.totalFeedback =
            SumOver(stats.ratings, MinRating..MaxRating) + stats.improvementFeedback
       /\ stats.averageRating =
            IF rated = {} THEN 0 ELSE ToFixed1(SumStored(rated), Cardinality(rated))

\* C15: getUserOrCreate called again with the same telegramId returns the row
\* the first call returned, with the id and the profile of the first call
\* whatever userData the later call passes, and adds no row: the users table
\* holds one row for the telegramId.
C15_GetUserOrCreateIdempotent ==
  \A i \in Managers :
    /\ \A r1, r2 \in dbUsers[i] : r1.telegram_id = r2.telegram_id => r1 = r2
    /\ \A u \in Users, d1, d2 \in UserDatas :
         LET first == getUserOrCreate(dbUsers[i], u, d1)
             second == getUserOrCreate(first.users, u, d2)
         IN /\ second.user = first.user
            /\ second.users = first.users
            /\ Cardinality({r \in second.users : r.telegram_id = u}) = 1
            /\ first.user \in dbUsers[i] \/ first.user.username = d1.username

\* getUserOrCreate has just been called while every user has a row, one of
\* them with a profile and one without
C15_Witness ==
  /\ call = "getUserOrCreate"
  /\ \A u \in Users : \E r \in dbUsers[Bot] : r.telegram_id = u
  /\ \E r1, r2 \in dbUsers[Bot] : r1.username = Null /\ r2.username # Null

\* C16: for a user below the chat limit createChat succeeds with a name of
\* exactly maxChatNameLength characters, and with one character more it fails
\* with the validation error, adds no chat and leaves the active chat as it was.
C16_NameLengthBoundary ==
  \A i \in Managers, u \in Users :
    Cardinality(Held(M(i), u)) < MaxChatsPerUser =>
      /\ LET r == createChat(M(i), now, u, Name(MaxChatNameLength))
         IN /\ r.res.success
            /\ Cardinality(Held(r.m, u)) = Cardinality(Held(M(i), u)) + 1
      /\ LET r == createChat(M(i), now, u, Name(MaxChatNameLength + 1))
         IN /\ ~r.res.success
            /\ r.res.error = [kind |-> "NameTooLong", arg |-> MaxChatNameLength]
            /\ Held(r.m, u) = Held(M(i), u)
            /\ Listings(r.m, u) = Listings(M(i), u)
            /\ ActiveOf(r.m, u) = ActiveOf(M(i), u)

\* a createChat has just failed for a user who is below the limit and has an
\* active chat: it failed for the length of the name
C16_Witness ==
  \E i \in Managers, u \in Users :
    /\ call = "createChat" /\ ~result[i]
    /\ Cardinality(Held(M(i), u)) < MaxChatsPerUser
    /\ ActiveOf(M(i), u) # NoChat

\* C17: after a run of the sweep no chat the backend in use holds was last
\* used longer ago than the retention of 30 days, and every chat last used
\* within the retention is held as before, with all its fields.
C17_SweepRemovesExpired ==
  \A i \in Managers, u \in Users :
    LET swept == autoCleanup(M(i), now)
    IN /\ \A c \in Held(swept, u) : now - LastUpdate(swept, c) <= Retention
       /\ \A c \in Held(M(i), u) :
            now - LastUpdate(M(i), c) <= Retention => c \in Held(swept, u)

\* C18: a second run of the sweep at the time of the first removes no
\* further chat and changes no active chat: it leaves the manager as the
\* first run left it.
C18_SweepIdempotent ==
  \A i \in Managers :
    LET once == autoCleanup(M(i), now)
        twice == autoCleanup(once, now)
    IN /\ twice = once
       /\ \A u \in Users :
            /\ Held(twice, u) = Held(once, u)
            /\ ActiveOf(twice, u) = ActiveOf(once, u)

\* the sweep has just run past the retention on the flat files, where chats
\* have been created before and after the retention elapsed: the user has
\* fewer chats than were created, none of them expired, one of them active
C18_Witness ==
  \E i \in Managers, u \in Users :
    /\ call = "autoCleanup" /\ ~useDatabase[i] /\ now > Retention
    /\ Held(M(i), u) # {} /\ Cardinality(Held(M(i), u)) < chatSeq[i]
    /\ \A c \in Held(M(i), u) : ~Expired(c, now)
    /\ ActiveOf(M(i), u) # NoChat

\* all the feedback records a learning manager holds
AllStored(lm) == UNION {Stored(lm, u) : u \in Users}

\* C19: after a run of the feedback sweep no feedback record the backend in
\* use holds was created before now - feedbackRetentionDays, every record
\* created since is held as before, and the count the sweep logs is the
\* number of records it removed.
C19_FeedbackSweep ==
  LET out == feedbackAutoCleanup(L, now)
  IN /\ \A x \in AllStored(out.m) : x[4] >= now - FeedbackRetention
     /\ \A x \in AllStored(L) : x[4] >= now - FeedbackRetention => x \in AllStored(out.m)
     /\ out.cleanedCount = Cardinality(AllStored(L)) - Cardinality(AllStored(out.m))

\* C20: no public call throws when a statement of the database raises:
\* createChat, getChats, selectChat, getActiveChat, saveCommentRating and
\* getUserOrCreate return a value whichever statement raises.
C20_NoCallThrows ==
  \A i \in Managers, u \in Users, f \in Faults :
    /\ \A n \in Names : ~createChatFault(M(i), now, u, n, f).threw
    /\ \A o \in getChatsFault(M(i), u, f) : ~o.threw
    /\ \A c \in ChatIds : ~selectChatFault(M(i), now, u, c, f).threw
    /\ ~getActiveChatFault(M(i), u, f).threw
    /\ \A c \in CommentIds, r \in RatingInputs :
         ~saveCommentRatingFault(L, now, u, c, r, NoContext, f).threw
    /\ \A d \in UserDatas : ~getUserOrCreateFault(dbUsers[i], u, d, f).threw


\* C21: under the flat files, when a writeFile of saveData fails during
\* createChat, selectChat, renameChat, deleteChat or updateChatStats, the call
\* returns what it returns when the write succeeds, the userChats map holds
\* the same mutation, so getChats and getActiveChat answer from it, and
\* saveData has logged the failure at level error.
SameInMemory(good, bad, userId) ==
  /\ bad.userChats = good.userChats
  /\ getChats(bad, userId) # {}
  /\ {o.res : o \in getChats(bad, userId)} = {o.res : o \in getChats(good, userId)}
  /\ getActiveChat(bad, userId).res = getActiveChat(good, userId).res
  /\ good.log # NoLog => bad.log = "error"

C21_WriteFailureKeepsMutation ==
  \A i \in Managers, u \in Users, f \in WriteFaults :
    ~useDatabase[i] =>
      /\ \A n \in Names :
           LET good == createChat(M(i), now, u, n)
               bad == createChat(WriteFault(i, f), now, u, n)
           IN bad.res = good.res /\ SameInMemory(good.m, bad.m, u)
      /\ \A c \in ChatIds :
           LET good == selectChat(M(i), now, u, c)
               bad == selectChat(WriteFault(i, f), now, u, c)
           IN bad.res = good.res /\ SameInMemory(good.m, bad.m, u)
      /\ \A c \in ChatIds, n \in Names :
           LET good == renameChat(M(i), u, c, n)
               bad == renameChat(WriteFault(i, f), u, c, n)
           IN bad.res = good.res /\ SameInMemory(good.m, bad.m, u)
      /\ \A c \in ChatIds :
           LET good == deleteChat(M(i), u, c)
               bad == deleteChat(WriteFault(i, f), u, c)
           IN bad.res = good.res /\ SameInMemory(good.m, bad.m, u)
      /\ \A c \in ChatIds :
           SameInMemory(updateChatStats(M(i), now, u, c),
                        updateChatStats(WriteFault(i, f), now, u, c), u)

\* C21: a call has changed the userChats map while user_chats.json could not
\* be written: the map holds a chat the file does not
C21_Witness ==
  \E i \in Managers :
    /\ ~useDatabase[i]
    /\ call \in {"createChat", "selectChat", "renameChat", "deleteChat", "updateChatStats"}
    /\ result[i]
    /\ User \in DOMAIN userChats[i]
    /\ Len(userChats[i][User].chats) > 0
    /\ files[i].userChats # userChats[i]


\* the attempts of the followed call of generateComments: the requests are
\* sent one per attempt, none follows a success, and the k-th failed attempt
\* that is not the last is followed by a delay of 2000 ms * k
OneRequestPerAttempt ==
  /\ \A k \in 1..Len(gen.responses) :
       gen.responses[k] = "ok" => k = Len(gen.responses) /\ gen.requests = k
  /\ gen.requests >= 2 => Len(gen.delays) >= gen.requests - 1
  /\ \A k \in 1..Len(gen.delays) :
       /\ gen.delays[k] = RetryDelay * k
       /\ k > 1 => gen.delays[k] > gen.delays[k - 1]

\* the call has returned a failure after n attempts that all failed, the
\* error being that of the n-th
FailedAll(n) ==
  /\ Len(gen.responses) = n
  /\ n >= 1
  /\ \A k \in 1..n : gen.responses[k] # "ok"
  /\ gen.result.error = gen.responses[n]

ReturnedFailure ==
  gen.pc = "returned" /\ gen.result.type = "object" /\ ~gen.result.success

C23_AlwaysReturnsResult ==
  gen.pc = "returned" => gen.result.type = "object" /\ gen.result.success \in BOOLEAN


\* the session state of the user holds the context of a generation
HasContext(userId) ==
  userId \in DOMAIN userStates /\ userStates[userId].context # NoContext

\* C24: a handler that ends after a successful generation leaves the context
\* and the commentId of the generation in the user's session state, and a
\* context in the session state stays as it is in every step but those of a
\* rating button, of the text of an improvement flow and of a later generation
\* that replaces it.
C24_ContextPersists ==
  [][\A u \in Users :
       /\ (\E k \in 1..Len(inFlight[u]) :
             inFlight[u][k].pc = "saving" /\ inFlight'[u] = Splice(inFlight[u], k))
          => HasContext(u)' /\ userStates'[u].commentId # 0
       /\ HasContext(u) =>
            \/ /\ HasContext(u)'
               /\ userStates'[u].context = userStates[u].context
               /\ userStates'[u].commentId = userStates[u].commentId
            \/ call' = "handleCommentRating"
            \/ call' = "handleMessage" /\ userStates[u].state = "waiting_for_improvement_feedback"
            \/ HasContext(u)' /\ userStates'[u].commentId # userStates[u].commentId]_vars


\* the feedback records a learning manager holds for a user, in its cache and
\* in its table, each with the context it carries
Records(lm, userId) ==
  {[id |-> f.id, type |-> f.type, rating |-> f.rating, context |-> f.context] :
     f \in {CacheOf(lm, userId)[k] : k \in 1..Len(CacheOf(lm, userId))}}
  \cup {[id |-> r.id, type |-> r.feedback_type, rating |-> r.rating,
         context |-> Parse(r.context)] :
          r \in {x \in lm.dbFeedback :
                   \E w \in lm.dbUsers : w.telegram_id = userId /\ w.id = x.user_id}}

\* lm2 holds one record more than lm, of the given user, type and context
OneMoreRecord(lm, lm2, userId, type, context) ==
  /\ \A v \in Users \ {userId} : Records(lm2, v) = Records(lm, v)
  /\ Records(lm, userId) \subseteq Records(lm2, userId)
  /\ Cardinality(Records(lm2, userId) \ Records(lm, userId)) = 1
  /\ \A x \in Records(lm2, userId) \ Records(lm, userId) :
       x.type = type /\ x.context = context

\* C25: a rating button pressed while the session state holds a context, when
\* the save succeeds, stores one rating record with that rating and context
\* and deletes the session state; when the save fails the session state stays
\* as it is; pressed while no context is held it stores nothing and leaves the
\* session state as it is.
C25_RatingAction ==
  \A u \in Users, r \in MinRating..MaxRating, f \in Faults :
    LET o == handleCommentRating(B, now, u, RatedCommentId, r, f)
    IN IF HasContext(u)
       THEN IF o.success
            THEN /\ OneMoreRecord(L, o.lm, u, "comment_rating", userStates[u].context)
                 /\ \A x \in Records(o.lm, u) \ Records(L, u) : x.rating = r
                 /\ u \notin DOMAIN o.userStates
                 /\ \A v \in DOMAIN userStates \ {u} :
                      v \in DOMAIN o.userStates /\ o.userStates[v] = userStates[v]
            ELSE o.userStates = userStates
       ELSE /\ o.userStates = userStates
            /\ o.lm = L
            /\ ~o.success

\* C25: a rating button was pressed while a context was held and the save
\* succeeded: the record is stored with its context, the session state is gone
C25_Witness ==
  /\ call = "handleCommentRating"
  /\ result[Bot]
  /\ User \notin DOMAIN userStates
  /\ \E x \in Records(L, User) : x.type = "comment_rating" /\ x.context # NoContext

\* C25: a rating button was pressed while a context was held and the save
\* failed: the session state still holds the context
C25_WitnessFailed ==
  /\ call = "handleCommentRating"
  /\ ~result[Bot]
  /\ HasContext(User)

\* C26: the improvement button pressed while the session state holds a context
\* moves the state to waiting_for_improvement_feedback and keeps the context
\* and the commentId, and pressed while no context is held changes nothing;
\* the text that follows stores one improvement record with that context and
\* deletes the session state, whether the improvement calls succeed or fail.
C26_ImprovementFlow ==
  \A u \in Users :
    /\ LET o == handleCommentImprovement(B, u)
       IN /\ o.m = M(Bot) /\ o.lm = L
          /\ IF HasContext(u)
             THEN /\ o.userStates[u].state = "waiting_for_improvement_feedback"
                  /\ o.userStates[u].context = userStates[u].context
                  /\ o.userStates[u].commentId = userStates[u].commentId
             ELSE o.userStates = userStates
    /\ u \in DOMAIN userStates /\ userStates[u].state = "waiting_for_improvement_feedback"
       => \A text \in Texts, improved \in BOOLEAN :
            LET o == handleUserState(B, now, u, text, NoFault, improved)
            IN /\ HasContext(u)
               /\ OneMoreRecord(L, o.lm, u, "improvement_feedback", userStates[u].context)
               /\ u \notin DOMAIN o.userStates
               /\ o.m = M(Bot)

\* C26: the text of an improvement flow was handled: the improvement record is
\* stored with the context and the session state is gone
C26_Witness ==
  /\ call = "handleMessage"
  /\ User \notin DOMAIN userStates
  /\ \E x \in Records(L, User) : x.type = "improvement_feedback" /\ x.context # NoContext


\* the number a text spells when all of it is a decimal numeral, with or
\* without a sign; NaN for every other text
Numeral(text) ==
  LET negative == text # <<>> /\ Head(text) = "-"
      rest == IF negative THEN Tail(text) ELSE text
      d == LeadingDigits(rest, 0, 0)
  IN IF d.count = 0 \/ d.count # Len(rest) THEN NaN
     ELSE [nan |-> FALSE, value |-> IF negative THEN 0 - d.value ELSE d.value]

\* the text is a 1-based index into the chats presented
IsIndexText(text, chats) ==
  LET i == Numeral(text) IN ~i.nan /\ i.value >= 1 /\ i.value <= Len(chats)

\* the user is in the given state of a flow
InState(userId, state) ==
  userId \in DOMAIN userStates /\ userStates[userId].state = state

\* the ids of the chats a user holds
HeldIds(m, userId) == {c.id : c \in Held(m, userId)}

\* C27: in the state waiting_for_chat_name the next text ends the flow: the
\* session state is deleted whether createChat succeeds or fails (name too
\* long, limit reached, storage error), the user holds a chat more exactly
\* when the creation is reported a success, and the state is never kept.
C27_ChatNameFlowEnds ==
  \A u \in Users :
    InState(u, "waiting_for_chat_name") =>
      \A text \in Texts, f \in Faults :
        LET o == handleUserState(B, now, u, text, f, TRUE)
        IN /\ u \notin DOMAIN o.userStates
           /\ o.success => Cardinality(HeldIds(o.m, u)) = Cardinality(HeldIds(M(Bot), u)) + 1
           /\ ~o.success => HeldIds(o.m, u) = HeldIds(M(Bot), u)

\* C28: in the states waiting_for_chat_selection,
\* waiting_for_rename_chat_selection and waiting_for_delete_chat_selection a
\* text that is not a 1-based index into the chats presented (out of range,
\* zero, negative, not a number) leaves the session states as they are and
\* selects, renames and deletes no chat.
C28_InvalidIndexReprompts ==
  \A u \in Users :
    \/ InState(u, "waiting_for_chat_selection")
    \/ InState(u, "waiting_for_rename_chat_selection")
    \/ InState(u, "waiting_for_delete_chat_selection")
    => \A text \in Texts, f \in Faults :
         ~IsIndexText(text, userStates[u].data.chats) =>
           LET o == handleUserState(B, now, u, text, f, TRUE)
           IN /\ o.userStates = userStates
              /\ o.m = M(Bot)
              /\ o.lm = L


\* the stored state of the user has a tag that is none of the known states
UnknownTag(userId) ==
  userId \in DOMAIN userStates /\ userStates[userId].state \notin KnownStates

\* C29: a text received while the stored session state has a tag that is none
\* of the known states deletes that session state, is answered with the
\* unknown-state message, and changes no chat, no setting, no feedback and
\* starts no generation; this is so for every text, and the handler ends
\* normally.
C29_UnknownStateReset ==
  [][\A u \in Users :
       UnknownTag(u) =>
         /\ \A text \in Texts, f \in Faults, improved \in BOOLEAN :
              LET o == handleUserState(B, now, u, text, f, improved)
              IN /\ o.userStates = MapDelete(userStates, u)
                 /\ o.reply = "unknown_state"
                 /\ o.m = M(Bot)
                 /\ o.lm = L
         /\ call' = "handleMessage" =>
              /\ userStates' = MapDelete(userStates, u)
              /\ UNCHANGED <<userChats, dbUsers, dbChats, chatSeq, userSettings, files,
                             inFlight, generations, learnVars>>]_vars

\* C29: a text was handled that found a state with an unknown tag: the state
\* is gone, no generation was started, and neither a failed createChat nor a
\* failed start of a generation explains the failure reported
C29_Witness ==
  /\ call = "handleMessage"
  /\ ~result[Bot]
  /\ inFlight[User] = <<>>
  /\ User \notin DOMAIN userStates
  /\ ActiveOf(M(Bot), User) # NoChat
  /\ Cardinality(Held(M(Bot), User)) < MaxChatsPerUser


\* what a user has with the bot: the session state, the chat lists getChats
\* can return, the active chat, the model and the feedback records
ViewOf(us, m, lm, userId) ==
  [state |-> MapGet(us, userId),
   present |-> userId \in DOMAIN us,
   chats |-> Listings(m, userId),
   active |-> ActiveOf(m, userId),
   model |-> getUserModel(m, userId),
   feedback |-> Records(lm, userId)]

UserView(userId) == ViewOf(userStates, M(Bot), L, userId)

\* the handler leaves the user with the view the user had
Untouched(o, userId, view) == ViewOf(o.userStates, o.m, o.lm, userId) = view

\* every handler applied for user a leaves user b with what b has
HandlersLeave(a, b) ==
  LET view == UserView(b)
  IN /\ Untouched(handleCommentImprovement(B, a), b, view)
     /\ Untouched(UnknownState(B, a), b, view)
     /\ \A f \in FeedbackFaults :
          Untouched(handleCommentRating(B, now, a, RatedCommentId, MaxRating, f), b, view)
     /\ a \in DOMAIN userStates =>
          Untouched(handleImprovementFeedback(B, now, a, userStates[a], TRUE), b, view)
     /\ \A text \in SessionTexts :
          /\ Untouched(handleModelSelection(B, a, text), b, view)
          /\ \A f \in SessionFaults :
               Untouched(handleChatNameInput(B, now, a, text, f), b, view)
          /\ a \in DOMAIN userStates =>
               Untouched(handleNewChatNameInput(B, a, text), b, view)
          /\ \A got \in getChats(M(Bot), a) :
               /\ Untouched(handleChatCommand(B, a, "waiting_for_chat_selection", got), b, view)
               /\ got.res.success =>
                    LET chats == got.res.data.chats
                        ids == [k \in 1..Len(chats) |-> chats[k].id]
                    IN /\ Untouched(handleChatSelection(B, now, a, text, ids, NoFault), b, view)
                       /\ Untouched(handleDeleteChatSelection(B, a, text, ids), b, view)
                       /\ Untouched(handleRenameChatSelection(B, a, text, ids), b, view)

\* C30: handling an event of user A (a command, a text in any state of a flow,
\* a rating or improvement button, the end of a generation) leaves every other
\* user B with the same session state, chat list, active chat, model and
\* feedback records, in every interleaving of the two users' events: every
\* handler applied for A in a reachable state leaves B's view as it is, and a
\* step that changes what A has or moves a handler of A changes nothing of B.
C30_UsersIsolated ==
  /\ [](\A a \in Users : \A b \in Users \ {a} : HandlersLeave(a, b))
  /\ [][\A a \in Users : \A b \in Users \ {a} :
          (UserView(a)' # UserView(a) \/ inFlight'[a] # inFlight[a])
             => UserView(b)' = UserView(b)]_vars

\* C30: both users hold a chat and a generation context, one of them has just
\* rated a comment and lost the session state, the other still has the context
C30_Witness ==
  \E a \in Users : \E b \in Users \ {a} :
    /\ call = "handleCommentRating" /\ result[Bot]
    /\ a \notin DOMAIN userStates
    /\ Records(L, a) # {}
    /\ HasContext(b)
    /\ ActiveOf(M(Bot), a) # NoChat /\ ActiveOf(M(Bot), b) # NoChat
    /\ Records(L, b) = {}


\* the message counter of a chat as its backend holds it
CountOf(chat) ==
  IF "message_count" \in DOMAIN chat THEN chat.message_count ELSE chat.messageCount

\* the message counters of the chats a user holds, by chat id
Counters(m, userId) ==
  [id \in HeldIds(m, userId) |->
     CountOf(CHOOSE c \in Held(m, userId) : c.id = id)]

\* C31: no step lowers the message counter of a chat; a generation that
\* succeeds raises the counter of the user's active chat by one under either
\* backend, and a generation that fails leaves every counter as it is.
C31_MessageCounter ==
  [][\A u \in Users :
       LET before == Counters(M(Bot), u)
           after == Counters(M(Bot), u)'
           active == ActiveOf(M(Bot), u)
       IN /\ \A id \in DOMAIN before \cap DOMAIN after : after[id] >= before[id]
          /\ \A k \in 1..Len(inFlight[u]) :
               inFlight[u][k].pc = "generating" =>
                 /\ inFlight'[u] = [inFlight[u] EXCEPT ![k].pc = "saving"]
                      => /\ active \in DOMAIN after
                         /\ after[active] = before[active] + 1
                 /\ inFlight'[u] = Splice(inFlight[u], k) => after = before]_vars


\* what every user holds, lists and has active
ChatsView(m) ==
  [u \in Users |-> [held |-> Held(m, u), listings |-> Listings(m, u),
                    active |-> ActiveOf(m, u)]]

\* C32: a renameChat that succeeds changes the name of the target chat and
\* nothing else: the user's chats are the same in number, the active chat is
\* the same, every other chat and the target's message counter are the same,
\* and the other users' chats are untouched; a renameChat with a name longer
\* than maxChatNameLength or a chat id the user does not hold fails and
\* changes nothing.
C32_RenameOnlyName ==
  \A i \in Managers, u \in Users, c \in ChatIds, n \in Names :
    LET r == renameChat(M(i), u, c, n)
    IN /\ IF r.res.success
          THEN /\ c \in HeldIds(M(i), u)
               /\ Held(r.m, u) = {IF x.id = c THEN [x EXCEPT !.name = n] ELSE x :
                                    x \in Held(M(i), u)}
               /\ Cardinality(Held(r.m, u)) = Cardinality(Held(M(i), u))
               /\ ActiveOf(r.m, u) = ActiveOf(M(i), u)
               /\ \A v \in Users \ {u} : ChatsView(r.m)[v] = ChatsView(M(i))[v]
          ELSE ChatsView(r.m) = ChatsView(M(i))
       /\ (NameTooLong(n) \/ c \notin HeldIds(M(i), u)) => ~r.res.success

\* C32: a renameChat has just succeeded for a user who holds two chats, the
\* renamed one not being the active one
C32_Witness ==
  \E i \in Managers, u \in Users :
    /\ call = "renameChat" /\ result[i]
    /\ Cardinality(Held(M(i), u)) >= 2
    /\ \E c \in Held(M(i), u) : c.name = Name(MaxChatNameLength) /\ c.id # ActiveOf(M(i), u)


\* C33: DatabaseManager.createChat called for a user who has maxChatsPerUser
\* chats, or with a name longer than maxChatNameLength, fails and inserts no
\* row, so that no user ever has more than maxChatsPerUser rows and no row a
\* longer name, whoever calls the storage layer.
C33_StorageEnforcesPolicy ==
  /\ \A w \in dbUsers[Bot] :
       /\ Cardinality(UserRows(dbChats[Bot], w.id)) <= MaxChatsPerUser
       /\ \A n \in Names :
            Cardinality(UserRows(dbChats[Bot], w.id)) >= MaxChatsPerUser \/ NameTooLong(n)
              => LET c == dbCreateChat(dbChats[Bot], chatSeq[Bot], now, w.id, n)
                 IN ~c.res.success /\ c.chats = dbChats[Bot]
  /\ \A r \in dbChats[Bot] : ~NameTooLong(r.name)


\* C34: the commentId a rating button carries in its callback data is read
\* back unchanged by handleCommentRating, and so is the rating: the commentId
\* stored with a rating is the commentId of the generation held in the
\* session state.
C34_CommentIdRoundTrip ==
  \A u \in Users :
    HasContext(u) =>
      \A r \in MinRating..MaxRating :
        LET id == CommentIdFields(userStates[u].commentId)
            parsed == ParseCallbackData(RatingCallbackData(r, id, "timestamp"))
        IN parsed.rating = r /\ parsed.commentId = id


\* C35: in the flat-file backend, after any sequence of createChat,
\* selectChat, renameChat, deleteChat and sweeps, a user's activeChatId is
\* null exactly when the user has no chats, and otherwise is the id of one of
\* the user's existing chats.
C35_ActiveChatExists ==
  \A i \in Managers :
    ~useDatabase[i] =>
      \A u \in DOMAIN userChats[i] :
        LET userData == userChats[i][u]
        IN /\ userData.activeChatId = NoChat <=> Len(userData.chats) = 0
           /\ userData.activeChatId # NoChat =>
                FindIndex(userData.chats, userData.activeChatId) # 0

\* C35: the chat that was active has been deleted or swept, another chat of
\* the user has taken its place
C35_Witness ==
  \E i \in Managers :
    /\ ~useDatabase[i]
    /\ call \in {"deleteChat", "autoCleanup"}
    /\ \E u \in DOMAIN userChats[i] :
         LET userData == userChats[i][u]
         IN /\ Len(userData.chats) > 0
            /\ userData.activeChatId = userData.chats[1].id
            /\ userData.activeChatId > 1


\* the last event handled for the user set a state or cleared it: /newchat
\* left the state waiting_for_chat_name, which no generation starts from, or
\* a rating has just been saved and the state deleted
LaterEvent(userId) ==
  \/ InState(userId, "waiting_for_chat_name")
  \/ call = "handleCommentRating" /\ result[Bot] /\ userId \notin DOMAIN userStates

\* C36: when a generation of a user completes after /newchat has set the
\* state waiting_for_chat_name, or after a rating has cleared the state, the
\* completion leaves the session state as that later event left it.
C36_LaterStateSurvives ==
  [][\A u \in Users : \A k \in 1..Len(inFlight[u]) :
       /\ inFlight[u][k].pc = "saving"
       /\ inFlight'[u] = Splice(inFlight[u], k)
       /\ LaterEvent(u)
       => userStates' = userStates]_vars


\* the ids of the rating records a user has stored
RatingIds(lm, userId) == {x.id : x \in {y \in Records(lm, userId) : y.type = "comment_rating"}}

\* C37: while a rating accepted for a generation is still being handled, a
\* further rating button pressed for the same generation stores no record:
\* one generation context gets at most one rating record.
C37_OneRatingPerContext ==
  [][\A u \in Users : \A k \in 1..Len(inFlight[u]) :
       /\ inFlight[u][k].pc = "rating"
       /\ inFlight[u][k].success
       /\ HasContext(u)
       /\ userStates[u].commentId = inFlight[u][k].commentId
       => RatingIds(L, u)' \subseteq RatingIds(L, u)]_vars


\* no saveData is writing
Quiescent == \A u \in Users : inFlight[u] = <<>>

\* C38: in the flat-file backend, when every saveData under way has
\* completed, the files hold the maps as they are in memory, whatever the
\* interleaving of the mutating calls and of their writes.
C38_FilesMatchMemory ==
  ~useDatabase[Bot] /\ Quiescent =>
    /\ files[Bot].userChats = userChats[Bot]
    /\ files[Bot].userSettings = userSettings[Bot]


\* C39: /start handled for a user who holds at least one chat creates no
\* chat, under either backend: however often /start is repeated, the user's
\* chats are those the user had.
C39_StartIdempotent ==
  [][\A u \in Users :
       call' = "handleStart" /\ HeldIds(M(Bot), u) # {}
         => HeldIds(M(Bot), u)' = HeldIds(M(Bot), u)]_vars


\* the bot processes alive and the spawns the monitor has pending
AliveOrPending ==
  Cardinality({c \in 1..Len(monitor.children) : monitor.children[c].alive})
  + monitor.timers

\* C40: at most one bot process is alive or pending at any time, also when
\* 'error' and 'exit' are both delivered for one child; and the exit of a
\* child with code 0 schedules no spawn.
C40_OneBotAtATime ==
  /\ [](AliveOrPending <= 1)
  /\ [][\A c \in 1..Len(monitor.children) :
          /\ ~monitor.children[c].exit
          /\ monitor'.children[c].exit
          /\ monitor'.children[c].code = 0
          => monitor'.timers = monitor.timers]_vars

====
